---- MODULE Spec2Model ----
(***************************************************************************)
(* A model of the schema reconciliation and merge engine (data_engine.py), *)
(* its text normaliser (core_schema.py) and the main window's handlers     *)
(* that drive it (app.py).                                                 *)
(*                                                                         *)
(* Text is modelled character by character: a string is a sequence of      *)
(* characters, an ASCII character is the one-character string, and a       *)
(* character outside ASCII is named by its code point ("U0130" is the      *)
(* dotted capital I).  Tables (pandas DataFrames) are objects on a heap:   *)
(* the fields that hold them hold references, so that two fields naming    *)
(* one object, and an edit made through either, are visible in the model.  *)
(***************************************************************************)
EXTENDS Integers, Sequences, FiniteSets, TLC

VARIABLES
    heap,                 \* object id -> table: every live DataFrame
    src_df,               \* Engine.src_df: a reference, or None
    staged_df,            \* Engine.staged_df
    processed_df,         \* Engine.processed_df
    loaded_files_top,     \* Engine.loaded_files_top: a sequence of paths
    loaded_files_bottom,  \* Engine.loaded_files_bottom
    manual_values,        \* Engine.manual_values: key -> text, "" when unset
    model_top,            \* MainWindow.model_top._df: a reference
    model_bottom,         \* MainWindow.model_bottom._df
    history,              \* MainWindow._history: a sequence of snapshots
    disk,                 \* the files of Engine.state_dir
    op,                   \* the operation the last step ran, with its arguments
    ret,                  \* what that operation returned
    steps                 \* the handlers the window has run

vars == <<heap, src_df, staged_df, processed_df, loaded_files_top,
          loaded_files_bottom, manual_values, model_top, model_bottom,
          history, disk, op, ret, steps>>

-----------------------------------------------------------------------------
(* Bounds of the model *)

\* rows of a table drawn as an input of import_staged_into_system
MaxInRows == 2
\* rows a table may grow to before the growing operations stop
MaxRows == 4
\* rows of a table drawn as an input of autofill_manual_from_df
MaxVotes == 10
\* handlers run in one behaviour of the window
MaxSteps == 4
\* snapshots that MainWindow._history keeps: 20 in app.py, line 753
HistoryCap == 2

-----------------------------------------------------------------------------
(* Characters and strings *)

UpperSeq == <<"A","B","C","D","E","F","G","H","I","J","K","L","M",
              "N","O","P","Q","R","S","T","U","V","W","X","Y","Z">>
LowerSeq == <<"a","b","c","d","e","f","g","h","i","j","k","l","m",
              "n","o","p","q","r","s","t","u","v","w","x","y","z">>
Digits == {"0","1","2","3","4","5","6","7","8","9"}
Uppers == {UpperSeq[i] : i \in 1..26}
Lowers == {LowerSeq[i] : i \in 1..26}

\* the characters outside ASCII the model knows, by code point:
\* the twelve letters of _TURKISH_CHAR_MAP, e-acute, sharp s, the no-break
\* space, the combining dot above and the euro sign
NonAscii == {"U0131","U0130","U015F","U015E","U011F","U011E","U00F6","U00D6",
             "U00FC","U00DC","U00E7","U00C7","U00E9","U00DF","U00A0","U0307",
             "U20AC"}

\* str.isspace
IsSpace(c) == c \in {" ", "\t", "U00A0"}

\* str.lower on one ASCII character
LowerAscii(c) ==
    IF c \in Uppers THEN LowerSeq[CHOOSE i \in 1..26 : UpperSeq[i] = c] ELSE c

\* str.strip: leading and trailing whitespace removed
RECURSIVE LStrip(_)
LStrip(s) == IF s # <<>> /\ IsSpace(Head(s)) THEN LStrip(Tail(s)) ELSE s

RECURSIVE RStrip(_)
RStrip(s) ==
    IF s # <<>> /\ IsSpace(s[Len(s)]) THEN RStrip(SubSeq(s, 1, Len(s) - 1)) ELSE s

Strip(s) == RStrip(LStrip(s))

\* _TURKISH_CHAR_MAP
TurkishCharMap(c) ==
    CASE c \in {"U0131", "U0130"} -> "i"
      [] c \in {"U015F", "U015E"} -> "s"
      [] c \in {"U011F", "U011E"} -> "g"
      [] c \in {"U00F6", "U00D6"} -> "o"
      [] c \in {"U00FC", "U00DC"} -> "u"
      [] c \in {"U00E7", "U00C7"} -> "c"
      [] OTHER -> c

\* unicodedata.normalize("NFKD", c) for one character
Nfkd(c) ==
    CASE c = "U0130" -> <<"I", "U0307">>
      [] c = "U015F" -> <<"s", "U0327">>
      [] c = "U015E" -> <<"S", "U0327">>
      [] c = "U011F" -> <<"g", "U0306">>
      [] c = "U011E" -> <<"G", "U0306">>
      [] c = "U00F6" -> <<"o", "U0308">>
      [] c = "U00D6" -> <<"O", "U0308">>
      [] c = "U00FC" -> <<"u", "U0308">>
      [] c = "U00DC" -> <<"U", "U0308">>
      [] c = "U00E7" -> <<"c", "U0327">>
      [] c = "U00C7" -> <<"C", "U0327">>
      [] c = "U00E9" -> <<"e", "U0301">>
      [] c = "U00A0" -> <<" ">>
      [] OTHER -> <<c>>

\* a character that encode("ascii", "ignore") keeps
IsAscii(c) == c \notin NonAscii /\ c \notin {"U0327", "U0306", "U0308", "U0301"}

\* lines 15-18 of normalize for one character: translate, NFKD, drop what is
\* not ASCII, lower
FoldChar(c) ==
    LET t == TurkishCharMap(c)
        d == Nfkd(t)
    IN  [i \in 1..Len(SelectSeq(d, IsAscii)) |-> LowerAscii(SelectSeq(d, IsAscii)[i])]

RECURSIVE FoldAll(_)
FoldAll(s) == IF s = <<>> THEN <<>> ELSE FoldChar(Head(s)) \o FoldAll(Tail(s))

\* re.sub(r"[^a-z0-9]+", " ", s) then re.sub(r"\s+", " ", s): every run of
\* characters outside a-z0-9 becomes one space
RECURSIVE CollapseRuns(_, _)
CollapseRuns(s, inRun) ==
    IF s = <<>> THEN <<>>
    ELSE IF Head(s) \in Lowers \cup Digits
         THEN <<Head(s)>> \o CollapseRuns(Tail(s), FALSE)
         ELSE IF inRun THEN CollapseRuns(Tail(s), TRUE)
              ELSE <<" ">> \o CollapseRuns(Tail(s), TRUE)

\* None where a string is expected: no text, no column found
NoCol == <<"#None">>

\* normalize without the strip that follows the substitutions
normalize_unstripped(s) ==
    IF s = NoCol THEN <<>>
    ELSE CollapseRuns(FoldAll(Strip(s)), FALSE)

\* core_schema.normalize
normalize(s) ==
    IF s = NoCol THEN <<>>
    ELSE Strip(CollapseRuns(FoldAll(Strip(s)), FALSE))

\* str.casefold for one character
CasefoldChar(c) ==
    CASE c \in Uppers -> <<LowerAscii(c)>>
      [] c = "U0130" -> <<"i", "U0307">>
      [] c = "U015E" -> <<"U015F">>
      [] c = "U011E" -> <<"U011F">>
      [] c = "U00D6" -> <<"U00F6">>
      [] c = "U00DC" -> <<"U00FC">>
      [] c = "U00C7" -> <<"U00E7">>
      [] c = "U00DF" -> <<"s", "s">>
      [] OTHER -> <<c>>

RECURSIVE Casefold(_)
Casefold(s) == IF s = <<>> THEN <<>> ELSE CasefoldChar(Head(s)) \o Casefold(Tail(s))

\* a in b, for strings
Contains(b, a) ==
    \E i \in 0..(Len(b) - Len(a)) : SubSeq(b, i + 1, i + Len(a)) = a

\* the element of a set of one
The(S) == CHOOSE x \in S : TRUE

-----------------------------------------------------------------------------
(* The canonical schema *)

SchemaKeys == <<"is_yeri_kodu", "masraf_yeri_kodu", "makine_kodu", "makine_adi",
                "malzeme_adi">>

\* a field key spelled as text
KeyName(key) ==
    CASE key = "is_yeri_kodu" -> <<"i", "s", "_", "y", "e", "r", "i", "_", "k", "o", "d", "u">>
      [] key = "masraf_yeri_kodu" ->
            <<"m", "a", "s", "r", "a", "f", "_", "y", "e", "r", "i", "_", "k", "o", "d", "u">>
      [] key = "makine_kodu" -> <<"m", "a", "k", "i", "n", "e", "_", "k", "o", "d", "u">>
      [] key = "makine_adi" -> <<"m", "a", "k", "i", "n", "e", "_", "a", "d", "i">>
      [] key = "malzeme_adi" -> <<"m", "a", "l", "z", "e", "m", "e", "_", "a", "d", "i">>

DEFAULT_SCHEMA(key) ==
    CASE key = "is_yeri_kodu" ->
           [label |-> <<"U0130", "U015F", " ", "Y", "e", "r", "i", " ", "K", "o", "d", "u">>,
            synonyms |-> << <<"i", "s", " ", "y", "e", "r", "i">>,
                            <<"i", "U015F", " ", "y", "e", "r", "i">>,
                            <<"p", "l", "a", "n", "t">>,
                            <<"s", "i", "t", "e">>,
                            <<"p", "l", "a", "n", "t", " ", "c", "o", "d", "e">>,
                            <<"i", "U015F", "y", "e", "r", "i">>,
                            <<"i", "s", "y", "e", "r", "i">> >>]
      [] key = "masraf_yeri_kodu" ->
           [label |-> <<"M", "a", "s", "r", "a", "f", " ", "Y", "e", "r", "i", " ", "K", "o", "d", "u">>,
            synonyms |-> << <<"m", "a", "s", "r", "a", "f", " ", "y", "e", "r", "i">>,
                            <<"c", "o", "s", "t", " ", "c", "e", "n", "t", "e", "r">>,
                            <<"c", "o", "s", "t", " ", "c", "e", "n", "t", "r", "e">>,
                            <<"c", "c">>,
                            <<"m", "a", "s", "r", "a", "f", " ", "k", "o", "d", "u">> >>]
      [] key = "makine_kodu" ->
           [label |-> <<"M", "a", "k", "i", "n", "e", " ", "K", "o", "d", "u">>,
            synonyms |-> << <<"m", "a", "k", "i", "n", "a", " ", "k", "o", "d", "u">>,
                            <<"e", "k", "i", "p", "m", "a", "n", " ", "k", "o", "d", "u">>,
                            <<"e", "q", "u", "i", "p", "m", "e", "n", "t", " ", "c", "o", "d", "e">>,
                            <<"a", "s", "s", "e", "t", " ", "c", "o", "d", "e">> >>]
      [] key = "makine_adi" ->
           [label |-> <<"M", "a", "k", "i", "n", "e", " ", "A", "d", "U0131">>,
            synonyms |-> << <<"m", "a", "k", "i", "n", "a", " ", "a", "d", "i">>,
                            <<"e", "k", "i", "p", "m", "a", "n", " ", "a", "d", "U0131">>,
                            <<"e", "q", "u", "i", "p", "m", "e", "n", "t", " ", "n", "a", "m", "e">>,
                            <<"a", "s", "s", "e", "t", " ", "n", "a", "m", "e">> >>]
      [] key = "malzeme_adi" ->
           [label |-> <<"M", "a", "l", "z", "e", "m", "e", " ", "A", "d", "U0131">>,
            synonyms |-> << <<"m", "a", "l", "z", "e", "m", "e", " ", "a", "d", "i">>,
                            <<"s", "t", "o", "k", " ", "a", "d", "U0131">>,
                            <<"m", "a", "t", "e", "r", "i", "a", "l", " ", "n", "a", "m", "e">>,
                            <<"i", "t", "e", "m", " ", "n", "a", "m", "e">> >>]

FOUR_KEYS == <<"is_yeri_kodu", "masraf_yeri_kodu", "makine_kodu">>

\* Engine._cands: the label, the synonyms, the key
Cands(key) == <<DEFAULT_SCHEMA(key).label>> \o DEFAULT_SCHEMA(key).synonyms \o <<KeyName(key)>>

-----------------------------------------------------------------------------
(* Tables *)

\* a table is [cols |-> sequence of headers, rows |-> sequence of rows], a row
\* the sequence of its cells in column order; a cell is text or a null
NaN == <<"#NaN">>      \* the float nan that pandas fills missing cells with
NA == <<"#NA">>        \* pd.NA, which the table view writes for an emptied cell
None == 0              \* no object
Raised == <<"#raised">> \* the call ended in an exception

EmptyTable == [cols |-> <<>>, rows |-> <<>>]   \* pd.DataFrame()

\* DataFrame.empty
TableEmpty(t) == Len(t.rows) = 0 \/ Len(t.cols) = 0

\* "df is None or df.empty"
DfEmpty(h, ref) == ref = None \/ TableEmpty(h[ref])

ColIndex(cols, col) == CHOOSE i \in 1..Len(cols) : cols[i] = col

HasCol(t, col) == \E i \in 1..Len(t.cols) : t.cols[i] = col

Cell(t, i, col) == t.rows[i][ColIndex(t.cols, col)]

\* astype(str) of one cell
AsStr(v) ==
    IF v = NaN THEN <<"n", "a", "n">>
    ELSE IF v = NA THEN <<"<", "N", "A", ">">>
    ELSE v

\* the table of a buffer, the empty one when there is none
Rows(h, ref) == IF ref = None THEN EmptyTable ELSE h[ref]

\* the columns of b that a lacks, in b's order
NewCols(a, b) == SelectSeq(b.cols, LAMBDA c : ~HasCol(a, c))

\* a row of t laid out on the columns cols, nan where t has no such column
Reindex(t, row, cols) ==
    [j \in 1..Len(cols) |-> IF HasCol(t, cols[j]) THEN row[ColIndex(t.cols, cols[j])] ELSE NaN]

\* a header occurs twice
HasDup(cols) == \E i, j \in 1..Len(cols) : i # j /\ cols[i] = cols[j]

\* pd.concat raises InvalidIndexError: a frame whose headers repeat would have to
\* be laid out on the union of the headers, which holds a header it lacks
ConcatRaises(a, b) ==
    \/ HasDup(a.cols) /\ \E j \in 1..Len(b.cols) : ~HasCol(a, b.cols[j])
    \/ HasDup(b.cols) /\ \E j \in 1..Len(a.cols) : ~HasCol(b, a.cols[j])

\* pd.concat([a, b], ignore_index=True, join="outer") when it does not raise;
\* frames with the same headers are stacked as they are
Concat(a, b) ==
    IF a.cols = b.cols THEN [cols |-> a.cols, rows |-> a.rows \o b.rows]
    ELSE LET cols == a.cols \o NewCols(a, b)
         IN  [cols |-> cols,
              rows |-> [i \in 1..Len(a.rows) |-> Reindex(a, a.rows[i], cols)]
                       \o [i \in 1..Len(b.rows) |-> Reindex(b, b.rows[i], cols)]]

\* the id a new object gets: the least one free
NewId(h) == CHOOSE i \in 1..(Cardinality(DOMAIN h) + 1) :
                i \notin DOMAIN h /\ \A j \in 1..(i - 1) : j \in DOMAIN h

\* a new object holding table t
Alloc(h, t) == [heap |-> (NewId(h) :> t) @@ h, ref |-> NewId(h)]

-----------------------------------------------------------------------------
(* The headers of the model's tables *)

H_plant == <<"p", "l", "a", "n", "t">>
H_PLANT == <<"P", "L", "A", "N", "T">>
H_cc == <<"c", "c">>
H_IsYeriKodu == <<"U0130", "U015F", " ", "Y", "e", "r", "i", " ", "K", "o", "d", "u">>
H_MasrafYeriKodu ==
    <<"M", "a", "s", "r", "a", "f", " ", "Y", "e", "r", "i", " ", "K", "o", "d", "u">>
H_plant_no == <<"p", "l", "a", "n", "t", " ", "n", "o">>
H_account == <<"a", "c", "c", "o", "u", "n", "t">>
H_AMOR == <<"A", "M", "O", "R">>
H_kaynak_dosya == <<"_", "_", "k", "a", "y", "n", "a", "k", "_", "d", "o", "s", "y", "a", "_", "_">>

H_plants == <<"p", "l", "a", "n", "t", "s">>
H_cost_centers == <<"c", "o", "s", "t", " ", "c", "e", "n", "t", "e", "r", "s">>

Headers == {H_plant, H_PLANT, H_cc, H_IsYeriKodu, H_MasrafYeriKodu, H_plant_no,
            H_account, H_AMOR, H_kaynak_dosya, H_plants, H_cost_centers}

\* cost_components: the components and the candidate names of their columns

COMPONENTS == <<"AMOR", "DIS", "EDIS", "ENER", "GUG">>

COMP_COL_CANDIDATES(comp) ==
    CASE comp = "AMOR" ->
        << <<"a", "m", "o", "r">>,
           <<"a", "m", "o", "r", "t", "i", "s", "m", "a", "n">>,
           <<"d", "e", "p", "r", "e", "c", "i", "a", "t", "i", "o", "n">> >>
      [] comp = "DIS" ->
        << <<"d", "i", "s">>,
           <<"d", "i", "U0307", "s">>,
           <<"d", "i", "r", "e", "k", "t", " ", "i", "s", "c", "i", "l", "i", "k">>,
           <<"d", "i", "r", "e", "k", "t", " ", "i", "U015F", "U00E7", "i", "l", "i", "k">>,
           <<"d", "i", "r", "e", "c", "t", " ", "l", "a", "b", "o", "r">>,
           <<"d", "l">> >>
      [] comp = "EDIS" ->
        << <<"e", "d", "i", "s">>,
           <<"e", "n", "d", "i", "r", "e", "k", "t", " ", "i", "s", "c", "i", "l", "i", "k">>,
           <<"e", "n", "d", "i", "r", "e", "k", "t", " ", "i", "U015F", "U00E7", "i", "l", "i", "k">>,
           <<"i", "n", "d", "i", "r", "e", "c", "t", " ", "l", "a", "b", "o", "r">>,
           <<"i", "l">> >>
      [] comp = "ENER" ->
        << <<"e", "n", "e", "r">>,
           <<"e", "n", "e", "r", "j", "i">>,
           <<"e", "l", "e", "c", "t", "r", "i", "c", "i", "t", "y">>,
           <<"k", "w", "h">>,
           <<"e", "n", "e", "r", "g", "y", " ", "c", "o", "s", "t">>,
           <<"e", "l", "e", "k", "t", "r", "i", "k">> >>
      [] comp = "GUG" ->
        << <<"g", "u", "g">>,
           <<"g", "U00FC", "g">>,
           <<"g", "e", "n", "e", "l", " ", "u", "r", "e", "t", "i", "m", " ", "g", "i", "d", "e", "r">>,
           <<"g", "e", "n", "e", "l", " ", "U00FC", "r", "e", "t", "i", "m", " ", "g", "i", "d", "e", "r">>,
           <<"o", "v", "e", "r", "h", "e", "a", "d">>,
           <<"o", "h">> >>

PLANT_COL_CANDIDATES ==
    << <<"i", "s", " ", "y", "e", "r", "i", " ", "k", "o", "d", "u">>,
       <<"i", "U015F", " ", "y", "e", "r", "i", " ", "k", "o", "d", "u">>,
       <<"i", "s", " ", "y", "e", "r", "i">>,
       <<"i", "U015F", "y", "e", "r", "i">>,
       <<"p", "l", "a", "n", "t">>,
       <<"s", "i", "t", "e">>,
       <<"p", "l", "a", "n", "t", " ", "c", "o", "d", "e">> >>

CCTR_COL_CANDIDATES ==
    << <<"m", "a", "s", "r", "a", "f", " ", "y", "e", "r", "i", " ", "k", "o", "d", "u">>,
       <<"m", "a", "s", "r", "a", "f", " ", "y", "e", "r", "i">>,
       <<"c", "o", "s", "t", " ", "c", "e", "n", "t", "e", "r">>,
       <<"c", "o", "s", "t", " ", "c", "e", "n", "t", "r", "e">>,
       <<"c", "c">>,
       <<"m", "a", "s", "r", "a", "f", " ", "k", "o", "d", "u">> >>

\* headers of cost tables
H_site == <<"s", "i", "t", "e">>
H_Plant_Code == <<"P", "l", "a", "n", "t", " ", "C", "o", "d", "e">>
H_EDIS == <<"E", "D", "I", "S">>
H_Enerji == <<"E", "n", "e", "r", "j", "i">>
H_kwh_total == <<"k", "w", "h", " ", "t", "o", "t", "a", "l">>
H_GUG == <<"G", "U00DC", "G">>
H_qty == <<"q", "t", "y">>

\* the candidate names of cost_components
CostCandidates ==
    {PLANT_COL_CANDIDATES[i] : i \in 1..Len(PLANT_COL_CANDIDATES)}
    \cup {CCTR_COL_CANDIDATES[i] : i \in 1..Len(CCTR_COL_CANDIDATES)}
    \cup UNION {{COMP_COL_CANDIDATES(COMPONENTS[c])[i] :
                    i \in 1..Len(COMP_COL_CANDIDATES(COMPONENTS[c]))} :
                c \in 1..Len(COMPONENTS)}

\* headers of a cost table: ones that equal a candidate after normalisation
\* (two of them alike, two for candidates of different rank), ones that only
\* contain a candidate, and one that matches nothing
CostHeaders == {H_plant, H_PLANT, H_site, H_Plant_Code, H_plant_no, H_cc, H_account,
                H_AMOR, H_EDIS, H_Enerji, H_kwh_total, H_GUG, H_qty}

\* normalize, worked out once for the headers and the candidates
NormTable ==
    [s \in Headers \cup CostHeaders \cup CostCandidates
          \cup UNION {{Cands(SchemaKeys[k])[i] : i \in 1..Len(Cands(SchemaKeys[k]))} :
                                 k \in 1..Len(SchemaKeys)}
       |-> normalize(s)]

Norm(s) == IF s \in DOMAIN NormTable THEN NormTable[s] ELSE normalize(s)

-----------------------------------------------------------------------------
(* Engine: column resolution *)

\* norm_map[n] of line 166: of the columns that normalise to n, the dict
\* comprehension keeps the last
NormMapGet(cols, n) ==
    LET hits == {i \in 1..Len(cols) : Norm(cols[i]) = n}
    IN  cols[CHOOSE i \in hits : \A j \in hits : j <= i]

NormMapHas(cols, n) == \E i \in 1..Len(cols) : Norm(cols[i]) = n

\* the exact pass, lines 167-170: the first candidate that is a key of norm_map
ExactHit(cols, candidates) ==
    LET hits == {k \in 1..Len(candidates) : NormMapHas(cols, Norm(candidates[k]))}
    IN  IF hits = {} THEN NoCol
        ELSE NormMapGet(cols, Norm(candidates[CHOOSE k \in hits : \A j \in hits : k <= j]))

\* the substring pass, lines 171-173: the first column that contains a candidate
SubstringHit(cols, candidates) ==
    LET hits == {i \in 1..Len(cols) :
                    \E k \in 1..Len(candidates) :
                        Contains(Norm(cols[i]), Norm(candidates[k]))}
    IN  IF hits = {} THEN NoCol ELSE cols[CHOOSE i \in hits : \A j \in hits : i <= j]

\* Engine.find_col_by_candidates
find_col_by_candidates(t, candidates) ==
    IF ExactHit(t.cols, candidates) # NoCol THEN ExactHit(t.cols, candidates)
    ELSE SubstringHit(t.cols, candidates)

-----------------------------------------------------------------------------
(* cost_components: resolve_columns *)

\* _find_col_by_candidates with the substring pass tried before the exact one
FindColSubstringFirst(t, candidates) ==
    IF SubstringHit(t.cols, candidates) # NoCol THEN SubstringHit(t.cols, candidates)
    ELSE ExactHit(t.cols, candidates)

\* cost_components._find_col_by_candidates, lines 36-51: the exact pass over
\* norm_map in candidate order, then the substring pass in column order (the
\* two passes are written as in Engine.find_col_by_candidates)
FindColByCandidates(t, candidates) ==
    IF ExactHit(t.cols, candidates) # NoCol THEN ExactHit(t.cols, candidates)
    ELSE SubstringHit(t.cols, candidates)

\* cost_components.resolve_columns: the FoundColumns of a table
resolve_columns(t) ==
    [plant_col |-> FindColByCandidates(t, PLANT_COL_CANDIDATES),
     cctr_col  |-> FindColByCandidates(t, CCTR_COL_CANDIDATES),
     comp_cols |-> [comp \in {COMPONENTS[c] : c \in 1..Len(COMPONENTS)} |->
                       FindColByCandidates(t, COMP_COL_CANDIDATES(comp))]]

-----------------------------------------------------------------------------
(* Engine: import_staged_into_system *)

\* the engine's fields and the heap they point into, as one value that the
\* operations below take and return
EngineNow ==
    [heap |-> heap, src_df |-> src_df, staged_df |-> staged_df,
     processed_df |-> processed_df, loaded_files_top |-> loaded_files_top,
     loaded_files_bottom |-> loaded_files_bottom, manual_values |-> manual_values,
     ret |-> ret]

\* a mutant of KeyText: the case folding forgotten
KeyTextNoFold(v) == Strip(AsStr(v))

\* astype(str).str.strip().str.casefold() of one cell, lines 222-223, 228-229
KeyText(v) == Casefold(Strip(AsStr(v)))

\* the (plant, cost centre) pair of row i
KeyPair(t, is_col, ms_col, i) == <<KeyText(Cell(t, i, is_col)), KeyText(Cell(t, i, ms_col))>>

\* a mutant of KeyPairs: the staged side is case-folded but not trimmed
KeyPairsUntrimmed(bot, bot_is, bot_ms) ==
    {<<Casefold(AsStr(Cell(bot, i, bot_is))), Casefold(AsStr(Cell(bot, i, bot_ms)))>> :
        i \in 1..Len(bot.rows)}

\* key_pairs, lines 220-225
KeyPairs(bot, bot_is, bot_ms) == {KeyPair(bot, bot_is, bot_ms, i) : i \in 1..Len(bot.rows)}

\* the rows of top at the indices in keep, in order
RECURSIVE RowsAt(_, _, _)
RowsAt(rows, keep, i) ==
    IF i > Len(rows) THEN <<>>
    ELSE (IF i \in keep THEN <<rows[i]>> ELSE <<>>) \o RowsAt(rows, keep, i + 1)

\* self.src_df.loc[mask_keep].reset_index(drop=True), lines 227-233
MaskKeep(top, top_is, top_ms, key_pairs) ==
    [top EXCEPT !.rows =
        RowsAt(top.rows,
               {i \in 1..Len(top.rows) : KeyPair(top, top_is, top_ms, i) \notin key_pairs}, 1)]

\* line 219: whether the removal step runs
KeysResolved(top_is, top_ms, bot_is, bot_ms) ==
    top_is # NoCol /\ top_ms # NoCol /\ bot_is # NoCol /\ bot_ms # NoCol

\* the key columns of both buffers, lines 214-217
KeyColumns(top, bot) ==
    [top_is |-> find_col_by_candidates(top, Cands("is_yeri_kodu")),
     top_ms |-> find_col_by_candidates(top, Cands("masraf_yeri_kodu")),
     bot_is |-> find_col_by_candidates(bot, Cands("is_yeri_kodu")),
     bot_ms |-> find_col_by_candidates(bot, Cands("masraf_yeri_kodu"))]

\* the rows of top that stay, lines 219-236, on the key columns c
Kept(top, bot, replace_on_keys, c) ==
    IF replace_on_keys /\ KeysResolved(c.top_is, c.top_ms, c.bot_is, c.bot_ms)
    THEN MaskKeep(top, c.top_is, c.top_ms, KeyPairs(bot, c.bot_is, c.bot_ms))
    ELSE top

\* line 219: the removal step runs and gives src_df a new table
Masks(replace_on_keys, c) ==
    replace_on_keys /\ KeysResolved(c.top_is, c.top_ms, c.bot_is, c.bot_ms)

\* a mutant of ImportMerge: without key columns nothing is appended
ImportMergeNeedsKeys(top, bot, replace_on_keys) ==
    The({ IF KeysResolved(c.top_is, c.top_ms, c.bot_is, c.bot_ms)
          THEN [table |-> Concat(Kept(top, bot, replace_on_keys, c), bot),
                masked |-> Masks(replace_on_keys, c),
                ret |-> <<Len(top.rows) - Len(Kept(top, bot, replace_on_keys, c).rows),
                          Len(bot.rows)>>]
          ELSE [table |-> top, masked |-> FALSE, ret |-> <<0, 0>>] :
          c \in {KeyColumns(top, bot)} })

\* lines 238-240 on the rows k that stay: the table src_df is left with, whether
\* the removal step ran, and the value returned; when pd.concat raises the
\* table is the one that the removal step left
MergeKept(top, bot, masked, k) ==
    IF ConcatRaises(k, bot) THEN [table |-> k, masked |-> masked, ret |-> Raised]
    ELSE [table |-> Concat(k, bot), masked |-> masked,
          ret |-> <<Len(top.rows) - Len(k.rows), Len(bot.rows)>>]

\* lines 214-240: both buffers hold rows
ImportMerge(top, bot, replace_on_keys) ==
    The({ MergeKept(top, bot, Masks(replace_on_keys, c), Kept(top, bot, replace_on_keys, c)) :
          c \in {KeyColumns(top, bot)} })

\* a mutant of CopyTable: the object itself where a copy is due
CopyTableAliased(h, ref) == [heap |-> h, ref |-> ref]

\* DataFrame.copy(): a new object with the same rows
CopyTable(h, ref) == Alloc(h, h[ref])

\* import_staged_into_system as a move: the staging buffer given up and its
\* paths listed with the system's
import_staged_moving(e, replace_on_keys) ==
    IF DfEmpty(e.heap, e.staged_df) THEN [e EXCEPT !.ret = <<0, 0>>]
    ELSE IF DfEmpty(e.heap, e.src_df)
    THEN [e EXCEPT !.src_df = e.staged_df, !.staged_df = None,
                   !.loaded_files_top = e.loaded_files_top \o e.loaded_files_bottom,
                   !.loaded_files_bottom = <<>>,
                   !.ret = <<0, Len(e.heap[e.staged_df].rows)>>]
    ELSE The({ IF m.ret = Raised /\ ~m.masked THEN [e EXCEPT !.ret = Raised]
               ELSE [e EXCEPT !.heap = Alloc(e.heap, m.table).heap,
                              !.src_df = Alloc(e.heap, m.table).ref,
                              !.staged_df = None,
                              !.loaded_files_top = e.loaded_files_top \o e.loaded_files_bottom,
                              !.loaded_files_bottom = <<>>,
                              !.ret = m.ret] :
               m \in {ImportMerge(e.heap[e.src_df], e.heap[e.staged_df], replace_on_keys)} })

\* Engine.import_staged_into_system
import_staged_into_system(e, replace_on_keys) ==
    IF DfEmpty(e.heap, e.staged_df) THEN [e EXCEPT !.ret = <<0, 0>>]
    ELSE IF DfEmpty(e.heap, e.src_df)
    THEN LET a == CopyTable(e.heap, e.staged_df)
         IN  [e EXCEPT !.heap = a.heap, !.src_df = a.ref,
                       !.ret = <<0, Len(e.heap[e.staged_df].rows)>>]
    ELSE The({ IF m.ret = Raised /\ ~m.masked THEN [e EXCEPT !.ret = Raised]
               ELSE [e EXCEPT !.heap = Alloc(e.heap, m.table).heap,
                              !.src_df = Alloc(e.heap, m.table).ref,
                              !.ret = m.ret] :
               m \in {ImportMerge(e.heap[e.src_df], e.heap[e.staged_df], replace_on_keys)} })

-----------------------------------------------------------------------------
(* Filtering by the two codes *)

\* str.upper on one character
UpperChar(c) ==
    CASE c \in Lowers -> <<UpperSeq[CHOOSE i \in 1..26 : LowerSeq[i] = c]>>
      [] c = "U0131" -> <<"I">>
      [] c = "U015F" -> <<"U015E">>
      [] c = "U011F" -> <<"U011E">>
      [] c = "U00F6" -> <<"U00D6">>
      [] c = "U00FC" -> <<"U00DC">>
      [] c = "U00E7" -> <<"U00C7">>
      [] c = "U00E9" -> <<"U00C9">>
      [] c = "U00DF" -> <<"S", "S">>
      [] OTHER -> <<c>>

RECURSIVE Upper(_)
Upper(s) == IF s = <<>> THEN <<>> ELSE UpperChar(Head(s)) \o Upper(Tail(s))

\* Series.str.contains(pat, case=False, na=False, regex=False) on one string:
\* pandas tests pat.upper() in x.upper()
StrContainsNoCase(x, pat) == Contains(Upper(x), Upper(pat))

\* lines 96-98: the mask of one code on one column; the cells as strings,
\* trimmed; the rows equal to the code after casefold if there is one, the
\* rows that contain it else
CodeMask(t, col, code) ==
    LET s == [i \in 1..Len(t.rows) |-> Strip(AsStr(Cell(t, i, col)))]
        eq == {i \in 1..Len(t.rows) : Casefold(s[i]) = Casefold(code)}
    IN  IF eq # {} THEN eq
        ELSE {i \in 1..Len(t.rows) : StrContainsNoCase(s[i], code)}

\* the mask of both codes; a code that is empty or has no column is skipped
BothMasks(t, plant_col, plant_code, cctr_col, cctr_code) ==
    (IF plant_code # <<>> /\ plant_col # NoCol
     THEN CodeMask(t, plant_col, plant_code) ELSE 1..Len(t.rows))
    \cap
    (IF cctr_code # <<>> /\ cctr_col # NoCol
     THEN CodeMask(t, cctr_col, cctr_code) ELSE 1..Len(t.rows))

\* cost_components.filter_by_codes
filter_by_codes(df, plant_code, cctr_code, found) ==
    IF TableEmpty(df) THEN EmptyTable
    ELSE [df EXCEPT !.rows =
            RowsAt(df.rows,
                   BothMasks(df, found.plant_col, plant_code, found.cctr_col, cctr_code), 1)]

\* lines 258-262 of data_engine.py: the provenance column moved to the front
SourceFirst(t) ==
    IF ~HasCol(t, H_kaynak_dosya) THEN t
    ELSE LET cols == <<H_kaynak_dosya>> \o SelectSeq(t.cols, LAMBDA c : c # H_kaynak_dosya)
         IN  [cols |-> cols,
              rows |-> [i \in 1..Len(t.rows) |->
                          [j \in 1..Len(cols) |-> Cell(t, i, cols[j])]]]

\* Engine.filter_df_by_codes
filter_df_by_codes(df, isyeri, masraf) ==
    IF TableEmpty(df) THEN EmptyTable
    ELSE LET col_is == IF isyeri # <<>>
                       THEN find_col_by_candidates(df, Cands("is_yeri_kodu")) ELSE NoCol
             col_ms == IF masraf # <<>>
                       THEN find_col_by_candidates(df, Cands("masraf_yeri_kodu")) ELSE NoCol
             sub == [df EXCEPT !.rows =
                       RowsAt(df.rows, BothMasks(df, col_is, isyeri, col_ms, masraf), 1)]
         IN  IF TableEmpty(sub) THEN EmptyTable ELSE SourceFirst(sub)

-----------------------------------------------------------------------------
(* cost_components: _to_float *)

\* float(...) raised ValueError
ValueError == [raised |-> TRUE]

\* a float that is a decimal fraction, num / 10^scale with the least scale
Decimal(num, scale) == [num |-> num, scale |-> scale]

RECURSIVE Reduce(_, _)
Reduce(num, scale) ==
    IF scale > 0 /\ num % 10 = 0 THEN Reduce(num \div 10, scale - 1)
    ELSE Decimal(num, scale)

DigitSeq == <<"0", "1", "2", "3", "4", "5", "6", "7", "8", "9">>

\* int(s) for a string of decimal digits, 0 for the empty one
RECURSIVE DigitsValue(_)
DigitsValue(s) ==
    IF s = <<>> THEN 0
    ELSE 10 * DigitsValue(SubSeq(s, 1, Len(s) - 1))
         + (CHOOSE d \in 0..9 : DigitSeq[d + 1] = s[Len(s)])

\* float(s) for the strings the model draws: surrounding whitespace dropped,
\* then digits with at most one dot and at least one digit; any other
\* character (a comma, a second dot, an inner space) raises ValueError
ParseFloat(s) ==
    LET t == Strip(s)
        dots == {i \in 1..Len(t) : t[i] = "."}
        digits == SelectSeq(t, LAMBDA c : c \in Digits)
    IN  IF /\ \A i \in 1..Len(t) : t[i] \in Digits \cup {"."}
           /\ Cardinality(dots) <= 1
           /\ digits # <<>>
        THEN Reduce(DigitsValue(digits),
                    IF dots = {} THEN 0 ELSE Len(t) - (CHOOSE i \in dots : TRUE))
        ELSE ValueError

\* str.rfind(c): the last index of c in s, counted from 1; 0 without one
RFind(s, c) ==
    IF \E i \in 1..Len(s) : s[i] = c
    THEN CHOOSE i \in 1..Len(s) : s[i] = c /\ \A j \in (i + 1)..Len(s) : s[j] # c
    ELSE 0

\* str.replace(c, "")
Remove(s, c) == SelectSeq(s, LAMBDA x : x # c)

\* str.replace(c, d) for single characters
Replace(s, c, d) == [i \in 1..Len(s) |-> IF s[i] = c THEN d ELSE s[i]]

\* str.lower
Lower(s) == [i \in 1..Len(s) |-> LowerAscii(s[i])]

\* lines 60-63: the text handed to float
Separators(s) ==
    IF RFind(s, ",") > 0 /\ RFind(s, ".") > 0 /\ RFind(s, ",") > RFind(s, ".")
    THEN Replace(Remove(Remove(s, " "), "."), ",", ".")
    ELSE Replace(s, ",", ".")

\* _to_float without its except clauses: a literal float cannot read raises
to_float_uncaught(x) ==
    LET s == Strip(AsStr(x))
    IN  IF s = <<>> \/ Lower(s) \in {<<"n", "a", "n">>, <<"<", "n", "a", ">">>, <<"n", "o", "n", "e">>}
        THEN Decimal(0, 0)
        ELSE ParseFloat(Separators(s))

\* cost_components._to_float for a string or a null x; str(x) is AsStr
to_float(x) ==
    LET s == Strip(AsStr(x))
    IN  IF s = <<>> \/ Lower(s) \in {<<"n", "a", "n">>, <<"<", "n", "a", ">">>, <<"n", "o", "n", "e">>}
        THEN Decimal(0, 0)
        ELSE IF ParseFloat(Separators(s)) # ValueError THEN ParseFloat(Separators(s))
        ELSE IF ParseFloat(x) # ValueError THEN ParseFloat(x)
        ELSE Decimal(0, 0)

-----------------------------------------------------------------------------
(* cost_components: floats of the component table *)

\* floats as fractions n/d in lowest terms with d > 0; d = 0 stands for
\* inf (n = 1), -inf (n = -1) and nan (n = 0). Rounding and the sign of zero
\* are not modelled.
Float(n, d) == [n |-> n, d |-> d]

Abs(i) == IF i < 0 THEN -i ELSE i

Sign(i) == IF i < 0 THEN -1 ELSE IF i > 0 THEN 1 ELSE 0

RECURSIVE Gcd(_, _)
Gcd(a, b) == IF b = 0 THEN a ELSE Gcd(b, a % b)

\* the float of the fraction n/d
FNorm(n, d) ==
    IF d = 0 THEN Float(Sign(n), 0)
    ELSE LET g == Gcd(Abs(n), Abs(d))
         IN  Float(Sign(d) * (n \div g), Abs(d) \div g)

FZero == Float(0, 1)
FNaN == Float(0, 0)

\* float.__add__, numpy add
FAdd(a, b) ==
    IF a.d = 0 /\ b.d = 0 THEN (IF a = b THEN a ELSE FNaN)
    ELSE FNorm(a.n * b.d + b.n * a.d, a.d * b.d)

FNeg(a) == Float(-a.n, a.d)

FSub(a, b) == FAdd(a, FNeg(b))

FMul(a, b) == FNorm(a.n * b.n, a.d * b.d)

\* numpy true_divide: a division by zero gives inf, -inf or nan, no error
FDiv(a, b) ==
    LET s == IF b.n < 0 THEN -1 ELSE 1
    IN  FNorm(a.n * b.d * s, a.d * b.n * s)

RECURSIVE Pow10(_)
Pow10(k) == IF k = 0 THEN 1 ELSE 10 * Pow10(k - 1)

\* the float that _to_float returns, as a fraction
FloatOf(dec) == FNorm(dec.num, Pow10(dec.scale))

\* Series.sum(skipna=True) of line 229
RECURSIVE SumSkipNa(_)
SumSkipNa(s) ==
    IF s = <<>> THEN FZero
    ELSE IF Head(s) = FNaN THEN SumSkipNa(Tail(s))
    ELSE FAdd(Head(s), SumSkipNa(Tail(s)))

-----------------------------------------------------------------------------
(* cost_components: formulas *)

\* the fullwidth capital letters U+FF21..U+FF3A, in the order of UpperSeq
FullwidthSeq == <<"UFF21","UFF22","UFF23","UFF24","UFF25","UFF26","UFF27",
                  "UFF28","UFF29","UFF2A","UFF2B","UFF2C","UFF2D","UFF2E",
                  "UFF2F","UFF30","UFF31","UFF32","UFF33","UFF34","UFF35",
                  "UFF36","UFF37","UFF38","UFF39","UFF3A">>

Fullwidths == {FullwidthSeq[i] : i \in 1..26}

\* the letters outside ASCII that the model knows
OtherLetters == {"U0131","U0130","U015F","U015E","U011F","U011E","U00F6","U00D6",
                 "U00FC","U00DC","U00E7","U00C7","U00E9","U00DF"} \cup Fullwidths

\* str.isalnum on one character: letters and digits of any script
IsAlnum(c) == c \in Uppers \cup Lowers \cup Digits \cup OtherLetters

\* line 177: the characters an expression may have
AllowedChar(c) == IsAlnum(c) \/ IsSpace(c) \/ c \in {"+", "-", "*", "/", "_"}

\* line 177: every character of the expression is allowed
ExprAllowed(expr) == \A i \in 1..Len(expr) : AllowedChar(expr[i])

\* NFKC of one character of an identifier, as Python's parser applies it: a
\* fullwidth letter becomes the ASCII letter
Nfkc(c) ==
    IF c \in Fullwidths THEN UpperSeq[CHOOSE i \in 1..26 : FullwidthSeq[i] = c] ELSE c

IsWordChar(c) == IsAlnum(c) \/ c = "_"

\* the longest prefix of s made of characters of words
RECURSIVE WordPrefix(_)
WordPrefix(s) ==
    IF s # <<>> /\ IsWordChar(Head(s)) THEN <<Head(s)>> \o WordPrefix(Tail(s)) ELSE <<>>

\* the tokens of an expression that passed the check of line 177: words
\* (names and numbers) and the operators + - * /; whitespace separates. The
\* operators ** and // are read as two tokens and so rejected by WellFormed:
\* expressions with them are not drawn.
RECURSIVE Tokens(_)
Tokens(s) ==
    IF s = <<>> THEN <<>>
    ELSE IF IsWordChar(Head(s))
    THEN <<[word |-> TRUE, v |-> WordPrefix(s)]>>
         \o Tokens(SubSeq(s, Len(WordPrefix(s)) + 1, Len(s)))
    ELSE IF Head(s) \in {"+", "-", "*", "/"}
    THEN <<[word |-> FALSE, v |-> <<Head(s)>>]>> \o Tokens(Tail(s))
    ELSE Tokens(Tail(s))

\* a word that is a decimal integer literal
IsNumber(w) ==
    /\ \A i \in 1..Len(w) : w[i] \in Digits
    /\ (Len(w) > 1 /\ w[1] = "0") => \A i \in 1..Len(w) : w[i] = "0"

\* a word that is an identifier: it does not start with a digit (a literal
\* with letters or underscores, such as 1e5, is not drawn)
IsName(w) == w[1] \notin Digits

\* the grammar of an expression without parentheses: operands, each after any
\* number of signs, with one operator between two operands
RECURSIVE WellFormed(_, _)
WellFormed(ts, operand) ==
    IF ts = <<>> THEN ~operand
    ELSE IF operand
    THEN IF Head(ts).word
         THEN (IsNumber(Head(ts).v) \/ IsName(Head(ts).v)) /\ WellFormed(Tail(ts), FALSE)
         ELSE Head(ts).v \in {<<"+">>, <<"-">>} /\ WellFormed(Tail(ts), TRUE)
    ELSE ~Head(ts).word /\ WellFormed(Tail(ts), TRUE)

\* the operands of a well-formed expression, each with the operator before it
\* (+ for the first) and whether its signs negate it
RECURSIVE Operands(_, _, _)
Operands(ts, oper, neg) ==
    IF ts = <<>> THEN <<>>
    ELSE IF Head(ts).word
    THEN <<[op |-> oper, neg |-> neg, v |-> Head(ts).v]>>
         \o (IF Tail(ts) = <<>> THEN <<>>
             ELSE Operands(Tail(Tail(ts)), Tail(ts)[1].v[1], FALSE))
    ELSE Operands(Tail(ts), oper, IF Head(ts).v = <<"-">> THEN ~neg ELSE neg)

\* eval raised (SyntaxError, NameError, ZeroDivisionError)
EvalError == [error |-> TRUE]

\* the column name of a component
CompHeader(comp) ==
    CASE comp = "AMOR" -> <<"A", "M", "O", "R">>
      [] comp = "DIS" -> <<"D", "I", "S">>
      [] comp = "EDIS" -> <<"E", "D", "I", "S">>
      [] comp = "ENER" -> <<"E", "N", "E", "R">>
      [] comp = "GUG" -> <<"G", "U", "G">>

CompSet == {COMPONENTS[c] : c \in 1..Len(COMPONENTS)}

\* a column of a table as a sequence of cells
ColumnOf(t, col) == [i \in 1..Len(t.rows) |-> Cell(t, i, col)]

\* a value of the evaluation: a Series of floats or a Python number
SeriesVal(cells) == [series |-> TRUE, v |-> cells]
ScalarVal(f) == [series |-> FALSE, v |-> f]

\* line 182: local_env, the component columns of out, 0.0 for a missing one
LocalEnv(out) ==
    [comp \in CompSet |->
        IF HasCol(out, CompHeader(comp)) THEN SeriesVal(ColumnOf(out, CompHeader(comp)))
        ELSE ScalarVal(FZero)]

\* the value of a name: the globals hold no builtins, so only the names of
\* local_env resolve (keywords and __builtins__ itself are not drawn)
NameValue(w, env) ==
    LET n == [i \in 1..Len(w) |-> Nfkc(w[i])]
    IN  IF \E comp \in CompSet : CompHeader(comp) = n
        THEN env[CHOOSE comp \in CompSet : CompHeader(comp) = n]
        ELSE EvalError

FloatOp(oper, a, b) ==
    CASE oper = "+" -> FAdd(a, b)
      [] oper = "-" -> FSub(a, b)
      [] oper = "*" -> FMul(a, b)
      [] oper = "/" -> FDiv(a, b)

\* one operator on two values: numbers as Python computes them (a division
\* by zero raises), a Series element by element with a number broadcast
ApplyOp(oper, x, y) ==
    IF x = EvalError \/ y = EvalError THEN EvalError
    ELSE IF ~x.series /\ ~y.series
    THEN IF oper = "/" /\ y.v = FZero THEN EvalError
         ELSE ScalarVal(FloatOp(oper, x.v, y.v))
    ELSE LET n == IF x.series THEN Len(x.v) ELSE Len(y.v)
         IN  SeriesVal([i \in 1..n |->
                          FloatOp(oper, IF x.series THEN x.v[i] ELSE x.v,
                                      IF y.series THEN y.v[i] ELSE y.v)])

\* the value of one operand with its signs
OperandValue(o, env) ==
    LET val == IF IsNumber(o.v) THEN ScalarVal(FNorm(DigitsValue(o.v), 1))
               ELSE NameValue(o.v, env)
    IN  IF o.neg THEN ApplyOp("-", ScalarVal(FZero), val) ELSE val

\* the operands combined from left to right, * and / before + and -
RECURSIVE FoldOperands(_, _, _, _, _)
FoldOperands(items, env, sum, term, sub) ==
    IF items = <<>> THEN ApplyOp(IF sub THEN "-" ELSE "+", sum, term)
    ELSE IF Head(items).op \in {"*", "/"}
    THEN FoldOperands(Tail(items), env, sum,
                      ApplyOp(Head(items).op, term, OperandValue(Head(items), env)), sub)
    ELSE FoldOperands(Tail(items), env,
                      ApplyOp(IF sub THEN "-" ELSE "+", sum, term),
                      OperandValue(Head(items), env), Head(items).op = "-")

\* line 184: eval(expr, {"__builtins__": {}}, local_env)
EvalExpr(expr, env) ==
    IF ~WellFormed(Tokens(expr), TRUE) THEN EvalError
    ELSE LET items == Operands(Tokens(expr), "+", FALSE)
         IN  FoldOperands(Tail(items), env, ScalarVal(FZero),
                          OperandValue(Head(items), env), FALSE)

\* line 184: out[name] = value; a number fills the column, a column of that
\* name is replaced where it stands
SetColumn(out, name, value) ==
    LET cells == IF value.series THEN value.v
                 ELSE [i \in 1..Len(out.rows) |-> value.v]
    IN  IF HasCol(out, name)
        THEN [out EXCEPT !.rows =
                 [i \in 1..Len(out.rows) |->
                     [out.rows[i] EXCEPT ![ColIndex(out.cols, name)] = cells[i]]]]
        ELSE [cols |-> Append(out.cols, name),
              rows |-> [i \in 1..Len(out.rows) |-> Append(out.rows[i], cells[i])]]

\* lines 172-187 from the k-th formula on: a formula with a character that is
\* not allowed, or whose evaluation raises, is passed over
RECURSIVE EvalFormulasFrom(_, _, _)
EvalFormulasFrom(out, formulas, k) ==
    IF k > Len(formulas) THEN out
    ELSE IF ~ExprAllowed(formulas[k].expr)
    THEN EvalFormulasFrom(out, formulas, k + 1)
    ELSE IF EvalExpr(formulas[k].expr, LocalEnv(out)) = EvalError
    THEN EvalFormulasFrom(out, formulas, k + 1)
    ELSE EvalFormulasFrom(SetColumn(out, formulas[k].name,
                                    EvalExpr(formulas[k].expr, LocalEnv(out))),
                          formulas, k + 1)

\* cost_components.eval_formulas_on_rows; formulas is the dict as the
\* sequence of its items
eval_formulas_on_rows(components_df, formulas) ==
    EvalFormulasFrom(components_df, formulas, 1)

\* cost_components.extract_components: the five components as floats, 0.0
\* for one without a column, then the provenance and the two key columns
extract_components(df_filtered, found) ==
    LET src(c) == found.comp_cols[COMPONENTS[c]]
        has(c) == src(c) # NoCol /\ HasCol(df_filtered, src(c))
        hasSource == HasCol(df_filtered, H_kaynak_dosya)
        hasPlant == found.plant_col # NoCol /\ HasCol(df_filtered, found.plant_col)
        hasCctr == found.cctr_col # NoCol /\ HasCol(df_filtered, found.cctr_col)
    IN  [cols |-> [c \in 1..Len(COMPONENTS) |-> CompHeader(COMPONENTS[c])]
                  \o (IF hasSource THEN <<H_kaynak_dosya>> ELSE <<>>)
                  \o (IF hasPlant THEN <<H_IsYeriKodu>> ELSE <<>>)
                  \o (IF hasCctr THEN <<H_MasrafYeriKodu>> ELSE <<>>),
         rows |-> [i \in 1..Len(df_filtered.rows) |->
                     [c \in 1..Len(COMPONENTS) |->
                         IF has(c) THEN FloatOf(to_float(Cell(df_filtered, i, src(c))))
                         ELSE FZero]
                     \o (IF hasSource THEN <<Cell(df_filtered, i, H_kaynak_dosya)>> ELSE <<>>)
                     \o (IF hasPlant THEN <<Cell(df_filtered, i, found.plant_col)>> ELSE <<>>)
                     \o (IF hasCctr THEN <<Cell(df_filtered, i, found.cctr_col)>> ELSE <<>>)]]

\* DEFAULT_FORMULAS, lines 132-137
DEFAULT_FORMULAS ==
    << [name |-> <<"P", "R", "O", "C", "E", "S", "S", "_", "M", "A", "L", "I", "Y", "E", "T", "I">>,
        expr |-> <<"A", "M", "O", "R", " ", "+", " ", "D", "I", "S", " ", "+", " ", "E", "D", "I", "S", " ", "+", " ", "E", "N", "E", "R", " ", "+", " ", "G", "U", "G">>] >>

\* the summary without the sums of the formula columns
SummaryOfComponents(out_rows, formulas) ==
    [c \in 1..Len(COMPONENTS) |->
        <<CompHeader(COMPONENTS[c]),
          SumSkipNa(ColumnOf(out_rows, CompHeader(COMPONENTS[c])))>>]

\* lines 226-232: the sums of the component columns, then of the formula
\* columns, as the items of the dict
Summary(out_rows, formulas) ==
    LET comps == [c \in 1..Len(COMPONENTS) |->
                    <<CompHeader(COMPONENTS[c]),
                      SumSkipNa(ColumnOf(out_rows, CompHeader(COMPONENTS[c])))>>]
        fs == SelectSeq(formulas, LAMBDA f : HasCol(out_rows, f.name))
    IN  comps \o [k \in 1..Len(fs) |->
                    <<fs[k].name, SumSkipNa(ColumnOf(out_rows, fs[k].name))>>]

\* cost_components.compute_by_plant_costcenter without a formula file
compute_by_plant_costcenter(df, isyeri_kodu, masraf_yeri_kodu) ==
    IF TableEmpty(df) THEN [rows |-> EmptyTable, summary |-> <<>>]
    ELSE LET found == resolve_columns(df)
             filtered == filter_by_codes(df, isyeri_kodu, masraf_yeri_kodu, found)
         IN  IF TableEmpty(filtered) THEN [rows |-> EmptyTable, summary |-> <<>>]
             ELSE LET out_rows == eval_formulas_on_rows(
                                      extract_components(filtered, found), DEFAULT_FORMULAS)
                  IN  [rows |-> out_rows, summary |-> Summary(out_rows, DEFAULT_FORMULAS)]

-----------------------------------------------------------------------------
(* Engine: autofill_manual_from_df *)

\* the texts that line 188 replaces by a null
NullTexts == { <<>>, <<"n", "a", "n">>, <<"<", "N", "A", ">">>, <<"N", "o", "n", "e">> }

\* s of lines 186-190: the column as text, trimmed, the nulls dropped
Votes(t, col) ==
    SelectSeq([i \in 1..Len(t.rows) |-> Strip(AsStr(Cell(t, i, col)))],
              LAMBDA v : v \notin NullTexts)

\* how often v occurs in s
CountOf(s, v) == Cardinality({i \in 1..Len(s) : s[i] = v})

\* vc.index[0]: the most frequent value, the first seen among equals
TopValue(s) ==
    s[CHOOSE i \in 1..Len(s) :
        /\ \A j \in 1..Len(s) : CountOf(s, s[j]) <= CountOf(s, s[i])
        /\ \A j \in 1..(i - 1) : CountOf(s, s[j]) < CountOf(s, s[i])]

\* a mutant of BelowThreshold: a share of exactly 0.9 is turned down too
BelowThresholdInclusive(count, total) == 10 * count <= 9 * total

\* line 199-200: float(count) / float(total) < 0.9
BelowThreshold(count, total) == 10 * count < 9 * total

\* a mutant of KeepsManual: a value already set does not stop the fill
KeepsManualNever(manual, key, override) == FALSE

\* line 181: the key is skipped
KeepsManual(manual, key, override) == ~override /\ manual[key] # <<>>

\* lines 192-202: the value taken from the votes s, or <<>>
Elect(s) ==
    IF s = <<>> THEN <<>>
    ELSE IF \A i \in 1..Len(s) : s[i] = s[1] THEN <<s[1]>>
    ELSE IF BelowThreshold(CountOf(s, TopValue(s)), Len(s)) THEN <<>>
    ELSE <<TopValue(s)>>

\* lines 183-202 for one key: <<val>>, or <<>> when the key is passed over
AutofillValue(t, key) ==
    The({ IF col = NoCol THEN <<>> ELSE Elect(Votes(t, col)) :
          col \in {find_col_by_candidates(t, Cands(key))} })

\* the loop of lines 180-204 from key number k on
RECURSIVE AutofillFrom(_, _, _, _, _)
AutofillFrom(e, t, keys, override, k) ==
    IF k > Len(keys) THEN e
    ELSE The({ AutofillFrom(IF KeepsManual(e.manual_values, keys[k], override) \/ v = <<>>
                            THEN e
                            ELSE [e EXCEPT !.manual_values[keys[k]] = v[1],
                                           !.ret = Append(e.ret, keys[k])],
                            t, keys, override, k + 1) :
               v \in {AutofillValue(t, keys[k])} })

\* Engine.autofill_manual_from_df; df is a reference
autofill_manual_from_df(e, df, keys, override) ==
    IF DfEmpty(e.heap, df) THEN [e EXCEPT !.ret = <<>>]
    ELSE AutofillFrom([e EXCEPT !.ret = <<>>], e.heap[df], keys, override, 1)

-----------------------------------------------------------------------------
(* Mapper: suggest_mapping and apply_mapping *)

\* the length of the common run of a from i and of b from j, inside ahi and bhi
RECURSIVE BlockLen(_, _, _, _, _, _)
BlockLen(a, i, ahi, b, j, bhi) ==
    IF i > ahi \/ j > bhi \/ a[i] # b[j] THEN 0
    ELSE 1 + BlockLen(a, i + 1, ahi, b, j + 1, bhi)

\* SequenceMatcher.find_longest_match: <<i, j, k>>, of the longest blocks the one
\* earliest in a, then earliest in b
LongestMatch(a, alo, ahi, b, blo, bhi) ==
    LET starts == (alo..ahi) \X (blo..bhi)
        size(p) == BlockLen(a, p[1], ahi, b, p[2], bhi)
        best == CHOOSE p \in starts :
                   \A q \in starts :
                      \/ size(q) < size(p)
                      \/ size(q) = size(p) /\ (p[1] < q[1] \/ (p[1] = q[1] /\ p[2] <= q[2]))
    IN  <<best[1], best[2], size(best)>>

\* the characters in the matching blocks of SequenceMatcher.get_matching_blocks
RECURSIVE MatchCount(_, _, _, _, _, _)
MatchCount(a, alo, ahi, b, blo, bhi) ==
    IF alo > ahi \/ blo > bhi THEN 0
    ELSE LET m == LongestMatch(a, alo, ahi, b, blo, bhi)
         IN  IF m[3] = 0 THEN 0
             ELSE m[3] + MatchCount(a, alo, m[1] - 1, b, blo, m[2] - 1)
                       + MatchCount(a, m[1] + m[3], ahi, b, m[2] + m[3], bhi)

\* SequenceMatcher(None, a, b).ratio() >= 0.88, which is 2 * M / T >= 22 / 25
CloseMatch(a, b) ==
    Len(a) + Len(b) = 0
      \/ 25 * MatchCount(a, 1, Len(a), b, 1, Len(b)) >= 11 * (Len(a) + Len(b))

\* candidates of line 76: the canonical key and its synonyms
MapperCands(key) == <<KeyName(key)>> \o DEFAULT_SCHEMA(key).synonyms

\* get_close_matches(nh, cand_norm, n=1, cutoff=0.88) is not empty, for the
\* headers of the model's tables
CloseTable ==
    [h \in Headers |->
        [k \in {SchemaKeys[i] : i \in 1..Len(SchemaKeys)} |->
            \E c \in 1..Len(MapperCands(k)) : CloseMatch(Norm(MapperCands(k)[c]), Norm(h))]]

\* a mutant of SuggestOne: the close matches are looked for first
SuggestOneFuzzyFirst(headers, key) ==
    LET cands == MapperCands(key)
        exact == {c \in 1..Len(cands) : NormMapHas(headers, Norm(cands[c]))}
        close == {i \in 1..Len(headers) : CloseTable[headers[i]][key]}
    IN  IF close # {}
        THEN NormMapGet(headers, Norm(headers[CHOOSE i \in close : \A j \in close : i <= j]))
        ELSE IF exact # {}
        THEN NormMapGet(headers, Norm(cands[CHOOSE c \in exact : \A d \in exact : c <= d]))
        ELSE NoCol

\* the header that the mapper proposes for key, lines 78-89
SuggestOne(headers, key) ==
    LET cands == MapperCands(key)
        exact == {c \in 1..Len(cands) : NormMapHas(headers, Norm(cands[c]))}
        \* norm_headers_map.keys(): the normalised headers in first-seen order
        firsts == {i \in 1..Len(headers) :
                      \A j \in 1..(i - 1) : Norm(headers[j]) # Norm(headers[i])}
        close == {i \in firsts : CloseTable[headers[i]][key]}
    IN  IF exact # {}
        THEN NormMapGet(headers, Norm(cands[CHOOSE c \in exact : \A d \in exact : c <= d]))
        ELSE IF close # {}
        THEN NormMapGet(headers, Norm(headers[CHOOSE i \in close : \A j \in close : i <= j]))
        ELSE NoCol

\* Mapper.suggest_mapping: canonical key -> header or NoCol
suggest_mapping(headers) ==
    [k \in {SchemaKeys[i] : i \in 1..Len(SchemaKeys)} |-> SuggestOne(headers, k)]

\* a mutant of OutLabel: the canonical key where the display label is due
OutLabelCanonical(k) == IF k <= Len(SchemaKeys) THEN KeyName(SchemaKeys[k])
                        ELSE H_kaynak_dosya

\* the column that apply_mapping writes for entry number k of its loop: the
\* five labels in schema order, then the provenance column
OutLabel(k) == IF k <= Len(SchemaKeys) THEN DEFAULT_SCHEMA(SchemaKeys[k]).label
               ELSE H_kaynak_dosya
OutSource(mapping, k) == IF k <= Len(SchemaKeys) THEN mapping[SchemaKeys[k]]
                         ELSE H_kaynak_dosya

\* out[label] = value, lines 96-99, for the entries k.. ; a frame without rows
\* takes the rows of the first column assigned to it and fills the columns it
\* had with nan; a scalar is spread over the rows there are
RECURSIVE ApplyFrom(_, _, _, _)
ApplyFrom(out, df, mapping, k) ==
    IF k > Len(SchemaKeys) + 1 THEN out
    ELSE LET src == OutSource(mapping, k)
             mapped == src # NoCol /\ HasCol(df, src)
             n == Len(df.rows)
         IN  IF k = Len(SchemaKeys) + 1 /\ ~mapped THEN out
             ELSE IF mapped /\ Len(out.rows) = 0 /\ n > 0
             THEN ApplyFrom([cols |-> Append(out.cols, OutLabel(k)),
                             rows |-> [i \in 1..n |->
                                         [j \in 1..Len(out.cols) |-> NaN]
                                           \o <<Cell(df, i, src)>>]],
                            df, mapping, k + 1)
             ELSE ApplyFrom([cols |-> Append(out.cols, OutLabel(k)),
                             rows |-> [i \in 1..Len(out.rows) |->
                                         Append(out.rows[i],
                                                IF mapped THEN Cell(df, i, src) ELSE NA)]],
                            df, mapping, k + 1)

\* Mapper.apply_mapping
apply_mapping(df, mapping) == ApplyFrom(EmptyTable, df, mapping, 1)

-----------------------------------------------------------------------------
(* Engine: files, appends, mapping, resets, persistence *)

\* the paths a file dialog can return
P_top == "top.csv"
P_more == "more.csv"
P_new == "new.csv"
P_empty == "empty.csv"
P_missing == "missing.csv"

\* Path(path).name as the text of a cell
PathName(path) ==
    CASE path = P_top -> <<"t", "o", "p", ".", "c", "s", "v">>
      [] path = P_more -> <<"m", "o", "r", "e", ".", "c", "s", "v">>
      [] path = P_new -> <<"n", "e", "w", ".", "c", "s", "v">>
      [] path = P_empty -> <<"e", "m", "p", "t", "y", ".", "c", "s", "v">>
      [] OTHER -> <<"m", "i", "s", "s", "i", "n", "g", ".", "c", "s", "v">>

\* Engine._read_any: <<table>>, or <<>> when reading raises
ReadAny(path) ==
    CASE path = P_top ->
           << [cols |-> <<H_plant, H_cc, H_AMOR>>,
               rows |-> << << <<"P", "1">>, <<"C", "1">>, <<"1", "0">> >> >>] >>
      [] path = P_more ->
           << [cols |-> <<H_plant, H_cc, H_AMOR>>,
               rows |-> << << <<"P", "2">>, <<"C", "1">>, <<"3", "0">> >> >>] >>
      [] path = P_new ->
           << [cols |-> <<H_IsYeriKodu, H_MasrafYeriKodu>>,
               rows |-> << << <<" ", "p", "1", " ">>, <<"c", "1">> >> >>] >>
      [] path = P_empty -> << [cols |-> <<H_plant, H_cc>>, rows |-> <<>>] >>
      [] OTHER -> <<>>

\* df["__kaynak_dosya__"] = Path(path).name, line 126
WithSource(t, path) ==
    IF HasCol(t, H_kaynak_dosya)
    THEN [t EXCEPT !.rows = [i \in 1..Len(t.rows) |->
                               [t.rows[i] EXCEPT ![ColIndex(t.cols, H_kaynak_dosya)] =
                                   PathName(path)]]]
    ELSE [cols |-> Append(t.cols, H_kaynak_dosya),
          rows |-> [i \in 1..Len(t.rows) |-> Append(t.rows[i], PathName(path))]]

\* frames of read_files, lines 118-127
RECURSIVE Frames(_, _)
Frames(paths, k) ==
    IF k > Len(paths) THEN <<>>
    ELSE LET r == ReadAny(paths[k])
         IN  (IF r = <<>> \/ TableEmpty(r[1]) THEN <<>> ELSE <<WithSource(r[1], paths[k])>>)
               \o Frames(paths, k + 1)

\* pd.concat of a list of frames
RECURSIVE ConcatAll(_, _)
ConcatAll(frames, k) ==
    IF k = 1 THEN frames[1] ELSE Concat(ConcatAll(frames, k - 1), frames[k])

\* Engine.read_files: the table read
read_files(paths) ==
    IF Frames(paths, 1) = <<>> THEN EmptyTable
    ELSE ConcatAll(Frames(paths, 1), Len(Frames(paths, 1)))

\* a mutant of AddPaths: every path is appended
AddPathsAll(files, source_paths, k) == files \o source_paths

\* lines 137-139 and 148-150 from path number k on
RECURSIVE AddPaths(_, _, _)
AddPaths(files, source_paths, k) ==
    IF k > Len(source_paths) THEN files
    ELSE AddPaths(IF \E i \in 1..Len(files) : files[i] = source_paths[k]
                  THEN files ELSE Append(files, source_paths[k]),
                  source_paths, k + 1)

\* a mutant of append_to_top: the paths are listed before the table is looked at
append_to_top_listing(e, new_df, source_paths) ==
    IF DfEmpty(e.heap, new_df)
    THEN [e EXCEPT !.loaded_files_top = AddPaths(e.loaded_files_top, source_paths, 1)]
    ELSE [e EXCEPT !.src_df = new_df,
                   !.loaded_files_top = AddPaths(e.loaded_files_top, source_paths, 1)]

\* Engine.append_to_top; new_df is a reference. ret is Raised when pd.concat
\* raises, and else as it was
append_to_top(e, new_df, source_paths) ==
    IF DfEmpty(e.heap, new_df) THEN e
    ELSE LET files == AddPaths(e.loaded_files_top, source_paths, 1)
         IN  IF DfEmpty(e.heap, e.src_df)
             THEN [e EXCEPT !.src_df = new_df, !.loaded_files_top = files]
             ELSE IF ConcatRaises(e.heap[e.src_df], e.heap[new_df])
             THEN [e EXCEPT !.ret = Raised]
             ELSE LET a == Alloc(e.heap, Concat(e.heap[e.src_df], e.heap[new_df]))
                  IN  [e EXCEPT !.heap = a.heap, !.src_df = a.ref,
                                !.loaded_files_top = files]

\* Engine.append_to_bottom
append_to_bottom(e, new_df, source_paths) ==
    IF DfEmpty(e.heap, new_df) THEN e
    ELSE LET files == AddPaths(e.loaded_files_bottom, source_paths, 1)
         IN  IF DfEmpty(e.heap, e.staged_df)
             THEN [e EXCEPT !.staged_df = new_df, !.loaded_files_bottom = files]
             ELSE IF ConcatRaises(e.heap[e.staged_df], e.heap[new_df])
             THEN [e EXCEPT !.ret = Raised]
             ELSE LET a == Alloc(e.heap, Concat(e.heap[e.staged_df], e.heap[new_df]))
                  IN  [e EXCEPT !.heap = a.heap, !.staged_df = a.ref,
                                !.loaded_files_bottom = files]

\* Engine.auto_apply_top; ret is the reference returned
auto_apply_top(e) ==
    IF DfEmpty(e.heap, e.src_df) THEN [e EXCEPT !.ret = None]
    ELSE LET top == e.heap[e.src_df]
             a == Alloc(e.heap, apply_mapping(top, suggest_mapping(top.cols)))
         IN  [e EXCEPT !.heap = a.heap, !.processed_df = a.ref, !.ret = a.ref]

\* a mutant of reset_top: the files are left where they are
reset_top_in_memory(e, d) ==
    << [e EXCEPT !.src_df = None, !.processed_df = None, !.loaded_files_top = <<>>], d >>

\* Engine.reset_top on the store d: <<engine, store>>
reset_top(e, d) ==
    << [e EXCEPT !.src_df = None, !.processed_df = None, !.loaded_files_top = <<>>],
       [d EXCEPT !.src_df = <<>>, !.processed_df = <<>>] >>

\* Engine.reset_bottom
reset_bottom(e, d) ==
    << [e EXCEPT !.staged_df = None, !.loaded_files_bottom = <<>>],
       [d EXCEPT !.staged_df = <<>>] >>

\* Engine.reset_state: the manual values go too, and config.json with the pickles
reset_state(e, d) ==
    << [e EXCEPT !.src_df = None, !.staged_df = None, !.processed_df = None,
                 !.loaded_files_top = <<>>, !.loaded_files_bottom = <<>>,
                 !.manual_values = [k \in DOMAIN e.manual_values |-> <<>>]],
       [src_df |-> <<>>, staged_df |-> <<>>, processed_df |-> <<>>, config |-> <<>>] >>

\* lines 53-58: the pickle of a buffer after save_state; old is the file there was
PickleOf(e, ref, old) == IF DfEmpty(e.heap, ref) THEN old ELSE <<e.heap[ref]>>

\* Engine.save_state: the store afterwards
save_state(e, d) ==
    [src_df |-> PickleOf(e, e.src_df, d.src_df),
     staged_df |-> PickleOf(e, e.staged_df, d.staged_df),
     processed_df |-> PickleOf(e, e.processed_df, d.processed_df),
     config |-> << [loaded_files_top |-> e.loaded_files_top,
                    loaded_files_bottom |-> e.loaded_files_bottom,
                    manual_values |-> e.manual_values] >>]

\* the engine of Engine.__init__, lines 24-29
NewEngine ==
    [heap |-> <<>>, src_df |-> None, staged_df |-> None, processed_df |-> None,
     loaded_files_top |-> <<>>, loaded_files_bottom |-> <<>>,
     manual_values |-> [k \in {FOUR_KEYS[i] : i \in 1..Len(FOUR_KEYS)} |-> <<>>],
     ret |-> <<>>]

\* a file that is there and cannot be read
Corrupt == << [unreadable |-> TRUE] >>

\* pd.read_pickle into field f when the file exists, lines 36-38
Unpickle(e, f, file) ==
    IF file = <<>> THEN e
    ELSE LET a == Alloc(e.heap, file[1])
         IN  [e EXCEPT !.heap = a.heap, ![f] = a.ref]

\* the try block of lines 32-40: the pickles are read in turn, and the first
\* that cannot be read ends the block
LoadPickles(e, d) ==
    IF d.src_df = Corrupt THEN e
    ELSE The({ IF d.staged_df = Corrupt THEN e1
               ELSE The({ IF d.processed_df = Corrupt THEN e2
                          ELSE Unpickle(e2, "processed_df", d.processed_df) :
                          e2 \in {Unpickle(e1, "staged_df", d.staged_df)} }) :
               e1 \in {Unpickle(e, "src_df", d.src_df)} })

\* Engine.load_state on a new engine; a config.json that cannot be read
\* leaves the lists and the manual values as __init__ made them
load_state(d) ==
    The({ IF d.config = <<>> \/ d.config = Corrupt THEN e3
          ELSE [e3 EXCEPT !.loaded_files_top = d.config[1].loaded_files_top,
                          !.loaded_files_bottom = d.config[1].loaded_files_bottom,
                          !.manual_values = d.config[1].manual_values] :
          e3 \in {LoadPickles(NewEngine, d)} })

-----------------------------------------------------------------------------
(* Garbage: objects no field refers to are dropped *)

\* the references a snapshot holds
SnapRefs(snap) == {snap.src, snap.staged, snap.processed}

\* h without the objects outside roots
Collect(h, roots) == [i \in (DOMAIN h) \cap roots |-> h[i]]

\* the fields of the engine e that leave a step, with the window's fields mt,
\* mb and hist; the return value and the operation are recorded
Leave(e, mt, mb, hist, d, o) ==
    /\ heap' = Collect(e.heap,
                       {e.src_df, e.staged_df, e.processed_df, mt, mb}
                         \cup UNION {SnapRefs(hist[i]) : i \in 1..Len(hist)})
    /\ src_df' = e.src_df
    /\ staged_df' = e.staged_df
    /\ processed_df' = e.processed_df
    /\ loaded_files_top' = e.loaded_files_top
    /\ loaded_files_bottom' = e.loaded_files_bottom
    /\ manual_values' = e.manual_values
    /\ ret' = e.ret
    /\ model_top' = mt
    /\ model_bottom' = mb
    /\ history' = hist
    /\ disk' = d
    /\ op' = o

\* nothing persisted
EmptyDisk == [src_df |-> <<>>, staged_df |-> <<>>, processed_df |-> <<>>, config |-> <<>>]

\* no manual value set
NoManual == [k \in {FOUR_KEYS[i] : i \in 1..Len(FOUR_KEYS)} |-> <<>>]

-----------------------------------------------------------------------------
(* Input tables *)

\* column layouts: exact synonyms; the labels; headers that only contain a
\* candidate; no key column; two headers that normalise alike
LayPlain == <<H_plant, H_cc, H_AMOR>>
LayLabel == <<H_IsYeriKodu, H_MasrafYeriKodu, H_AMOR>>
LaySub == <<H_plant_no, H_account, H_AMOR>>
LayNoKeys == <<H_AMOR>>
LayCollide == <<H_plant, H_PLANT, H_cc, H_AMOR>>
LayBare == <<H_plant, H_cc>>
Layouts == {LayPlain, LayLabel, LaySub, LayNoKeys, LayCollide, LayBare}

\* (plant, cost centre, amount) of a row
Triples == { << <<"P", "1">>, <<"C", "1">>, <<"1", "0">> >>,
             << <<" ", "p", "1", " ">>, <<"c", "1">>, <<"2", "0">> >>,
             << <<"P", "2">>, <<"C", "1">>, <<"1", "0">> >>,
             << NaN, <<"C", "1">>, <<"3", "0">> >> }

RowOn(layout, tr) ==
    CASE layout = LayNoKeys -> <<tr[3]>>
      [] layout = LayCollide -> << <<"P", "2">>, tr[1], tr[2], tr[3] >>
      [] layout = LayBare -> <<tr[1], tr[2]>>
      [] OTHER -> tr

\* the tables of 1..n rows
InTables(n) ==
    UNION { { [cols |-> layout, rows |-> [i \in 1..k |-> RowOn(layout, f[i])]] :
                f \in [1..k -> Triples] } : layout \in Layouts, k \in 1..n }

-----------------------------------------------------------------------------
(* The specification of import_staged_into_system on drawn buffers *)

InitImport ==
    /\ src_df \in {None, 1}
    /\ staged_df \in {None, 2}
    /\ heap \in [{src_df, staged_df} \ {None} -> InTables(MaxInRows)]
    /\ processed_df = None
    /\ loaded_files_top = <<>>
    /\ loaded_files_bottom = <<>>
    /\ manual_values = NoManual
    /\ model_top = None
    /\ model_bottom = None
    /\ history = <<>>
    /\ disk = EmptyDisk
    /\ op = [name |-> "init", arg |-> <<>>]
    /\ ret = <<>>
    /\ steps = 0

\* one call of the engine's import
ImportCall(replace_on_keys) ==
    /\ (src_df # None /\ staged_df # None) =>
          Len(heap[src_df].rows) + Len(heap[staged_df].rows) <= MaxRows
    /\ \E e1 \in {import_staged_into_system(EngineNow, replace_on_keys)} :
          Leave(e1, model_top, model_bottom, history, disk,
                [name |-> "import_staged_into_system", arg |-> <<replace_on_keys>>])
    /\ UNCHANGED steps

NextImport == \E replace_on_keys \in BOOLEAN : ImportCall(replace_on_keys)

SpecImport == InitImport /\ [][NextImport]_vars

-----------------------------------------------------------------------------
(* What the claims about import_staged_into_system speak of *)

ImportStep == op'.name = "import_staged_into_system"
ImportDone == op.name = "import_staged_into_system"

\* the plant and cost centre columns of a table, as the engine resolves them
PlantCol(t) == find_col_by_candidates(t, Cands("is_yeri_kodu"))
CctrCol(t) == find_col_by_candidates(t, Cands("masraf_yeri_kodu"))
Resolvable(t) == PlantCol(t) # NoCol /\ CctrCol(t) # NoCol

\* a cell as text, trimmed and case-folded
TrimFold(v) == Casefold(Strip(AsStr(v)))
\* the (plant, cost centre) pair of row i of t
PairOf(t, i) == <<TrimFold(Cell(t, i, PlantCol(t))), TrimFold(Cell(t, i, CctrCol(t)))>>

\* row r of table new carries the cells of row i of table old, column by column
SameCells(new, r, old, i) ==
    \A c \in 1..Len(old.cols) : HasCol(new, old.cols[c]) /\ Cell(new, r, old.cols[c]) = old.rows[i][c]

\* new is the rows of top at the indices keep, in their order, then every row of bot
KeptThenStaged(new, top, keep, bot) ==
    /\ Len(new.rows) = Cardinality(keep) + Len(bot.rows)
    /\ \A i \in keep : SameCells(new, Cardinality({k \in keep : k <= i}), top, i)
    /\ \A j \in 1..Len(bot.rows) : SameCells(new, Cardinality(keep) + j, bot, j)

\* C1: an import with replace_on_keys, both buffers holding rows and the key
\* columns resolved on both sides, removes exactly the system rows whose trimmed,
\* case-folded (plant, cost centre) pair is the pair of a staged row, keeps the
\* others in order, appends every staged row and returns (removed, added)
C1_ImportReplacesByKey ==
    [][ ( /\ ImportStep /\ op'.arg = <<TRUE>>
          /\ ~DfEmpty(heap, src_df) /\ ~DfEmpty(heap, staged_df)
          /\ Resolvable(heap[src_df]) /\ Resolvable(heap[staged_df]) )
        => LET top == heap[src_df]
               bot == heap[staged_df]
               gone == {i \in 1..Len(top.rows) :
                           \E j \in 1..Len(bot.rows) : PairOf(top, i) = PairOf(bot, j)}
           IN  /\ KeptThenStaged(heap'[src_df'], top, (1..Len(top.rows)) \ gone, bot)
               /\ ret' = <<Cardinality(gone), Len(bot.rows)>>
               /\ Len(heap'[src_df'].rows) = Len(top.rows) - ret'[1] + Len(bot.rows)
      ]_vars

\* an import that removed a row and kept another
C1_Witness ==
    /\ ImportDone /\ op.arg = <<TRUE>>
    /\ ret[1] >= 1
    /\ Len(heap[src_df].rows) > ret[2]

\* the system table after one import of the engine e, and after two
AfterOneImport(e) == import_staged_into_system(e, TRUE)
AfterTwoImports(e) == import_staged_into_system(AfterOneImport(e), TRUE)
TableOf(e) == IF e.src_df = None THEN EmptyTable ELSE e.heap[e.src_df]

SameKeyColumns(e) ==
    LET bot == e.heap[e.staged_df]
        one == TableOf(AfterOneImport(e))
    IN  /\ Resolvable(bot)
        /\ PlantCol(one) = PlantCol(bot) /\ CctrCol(one) = CctrCol(bot)
        /\ DfEmpty(e.heap, e.src_df)
             \/ ( /\ PlantCol(e.heap[e.src_df]) = PlantCol(bot)
                  /\ CctrCol(e.heap[e.src_df]) = CctrCol(bot) )

C8_ImportIntoEmptySystem ==
    [][ (ImportStep /\ DfEmpty(heap, src_df) /\ ~DfEmpty(heap, staged_df))
        => /\ heap'[src_df'] = heap[staged_df]
           /\ src_df' # staged_df'
           /\ heap'[staged_df'] = heap[staged_df]
           /\ ret' = <<0, Len(heap[staged_df].rows)>>
      ]_vars

\* an import has filled the empty system buffer from the staged one
C8_Witness ==
    /\ ImportDone /\ ret[1] = 0 /\ ret[2] >= 1
    /\ src_df # None /\ staged_df # None
    /\ heap[src_df] = heap[staged_df]

\* C9: when a key column resolves in neither or only one of the buffers, an
\* import removes nothing, appends every staged row and returns
\* (0, number of staged rows)
C9_ImportWithoutKeyColumns ==
    [][ ( /\ ImportStep
          /\ ~DfEmpty(heap, src_df) /\ ~DfEmpty(heap, staged_df)
          /\ ~(Resolvable(heap[src_df]) /\ Resolvable(heap[staged_df])) )
        => /\ KeptThenStaged(heap'[src_df'], heap[src_df], 1..Len(heap[src_df].rows),
                             heap[staged_df])
           /\ ret' = <<0, Len(heap[staged_df].rows)>>
      ]_vars

\* an import with replace_on_keys has appended to a system table without key columns
C9_Witness ==
    /\ ImportDone /\ op.arg = <<TRUE>>
    /\ src_df # None /\ staged_df # None
    /\ Resolvable(heap[src_df]) /\ ~Resolvable(heap[staged_df])
    /\ ret[1] = 0
    /\ Len(heap[src_df].rows) > Len(heap[staged_df].rows)

-----------------------------------------------------------------------------
(* The specification of autofill_manual_from_df on drawn tables *)

V_A == <<"A">>
V_A_spaced == <<" ", "A", " ">>
V_B == <<"B">>
V_C1 == <<"C", "1">>

\* the nulls of a drawn column, in turn: nan, the empty text, "None", pd.NA, "nan"
NullCell(i) ==
    CASE i % 5 = 1 -> NaN
      [] i % 5 = 2 -> <<" ">>
      [] i % 5 = 3 -> <<"N", "o", "n", "e">>
      [] i % 5 = 4 -> NA
      [] OTHER -> <<"n", "a", "n">>

\* a plant column of a cells A (every other one with blanks around it), b cells B
\* and z nulls; the B cells first when bFirst
VoteColumn(a, b, z, bFirst) ==
    LET as == [i \in 1..a |-> IF i % 2 = 0 THEN V_A_spaced ELSE V_A]
        bs == [i \in 1..b |-> V_B]
        zs == [i \in 1..z |-> NullCell(i)]
    IN  IF bFirst THEN bs \o zs \o as ELSE as \o zs \o bs

\* a table with that plant column and a cost centre column that is C1 throughout
VoteTable(a, b, z, bFirst) ==
    [cols |-> <<H_plant, H_cc>>,
     rows |-> [i \in 1..(a + b + z) |-> <<VoteColumn(a, b, z, bFirst)[i], V_C1>>]]

\* manual values as a restart or an undo can leave them
ManualInputs ==
    { [is_yeri_kodu |-> p, masraf_yeri_kodu |-> c, makine_kodu |-> <<>>] :
        p \in {<<>>, V_A, V_B}, c \in {<<>>, <<"C", "9">>} }

InitAutofill ==
    /\ src_df = 1
    /\ \E a \in 0..MaxVotes, b \in 0..MaxVotes, z \in 0..2, bFirst \in BOOLEAN :
          /\ a + b + z \in 1..MaxVotes
          /\ heap = (1 :> VoteTable(a, b, z, bFirst))
    /\ staged_df = None
    /\ processed_df = None
    /\ loaded_files_top = <<>>
    /\ loaded_files_bottom = <<>>
    /\ manual_values \in ManualInputs
    /\ model_top = None
    /\ model_bottom = None
    /\ history = <<>>
    /\ disk = EmptyDisk
    /\ op = [name |-> "init", arg |-> <<>>]
    /\ ret = <<>>
    /\ steps = 0

\* one call of the engine's autofill on the top table
AutofillCall(override) ==
    /\ op.name = "init"
    /\ \E e1 \in {autofill_manual_from_df(EngineNow, src_df, FOUR_KEYS, override)} :
          Leave(e1, model_top, model_bottom, history, disk,
                [name |-> "autofill_manual_from_df", arg |-> <<override>>])
    /\ UNCHANGED steps

NextAutofill == \E override \in BOOLEAN : AutofillCall(override)

SpecAutofill == InitAutofill /\ [][NextAutofill]_vars

AutofillStep == op'.name = "autofill_manual_from_df"
AutofillDone == op.name = "autofill_manual_from_df"

\* the non-null trimmed values of the column of key in table t
KeyValues(t, key) ==
    LET col == find_col_by_candidates(t, Cands(key))
    IN  SelectSeq([i \in 1..Len(t.rows) |-> Strip(AsStr(Cell(t, i, col)))],
                  LAMBDA v : v \notin NullTexts)

Occurrences(s, v) == Cardinality({i \in 1..Len(s) : s[i] = v})

\* v covers at least 90% of s
CoversNineTenths(s, v) == 10 * Occurrences(s, v) >= 9 * Len(s)

\* the key's column resolves and holds several distinct non-null values
SeveralValues(t, key) ==
    /\ find_col_by_candidates(t, Cands(key)) # NoCol
    /\ \E i, j \in 1..Len(KeyValues(t, key)) : KeyValues(t, key)[i] # KeyValues(t, key)[j]

\* C6: for a key that the call may fill and whose column holds several distinct
\* values, the call sets the key to a value if and only if that value covers at
\* least 90% of the non-null rows, and then to that value; otherwise the key
\* keeps what it had
C6_MajorityThreshold ==
    [][ AutofillStep =>
          \A k \in DOMAIN manual_values :
             ( /\ SeveralValues(heap[src_df], k)
               /\ (op'.arg = <<TRUE>> \/ manual_values[k] = <<>>) )
             => LET s == KeyValues(heap[src_df], k)
                    winners == {s[i] : i \in {j \in 1..Len(s) : CoversNineTenths(s, s[j])}}
                IN  /\ winners # {} => manual_values'[k] \in winners /\ k \in {ret'[i] : i \in 1..Len(ret')}
                    /\ winners = {} => manual_values'[k] = manual_values[k]
                                       /\ k \notin {ret'[i] : i \in 1..Len(ret')}
      ]_vars

\* nine rows of ten say A and the key was filled with A
C6_Witness ==
    /\ AutofillDone
    /\ Len(heap[src_df].rows) = 10
    /\ Occurrences(KeyValues(heap[src_df], "is_yeri_kodu"), V_A) = 9
    /\ Occurrences(KeyValues(heap[src_df], "is_yeri_kodu"), V_B) = 1
    /\ manual_values["is_yeri_kodu"] = V_A
    /\ ret[1] = "is_yeri_kodu"

\* C7: without override a call changes no manual value that is set and does not
\* return its key, and returns exactly the keys it assigned, in key order
C7_AutofillKeepsSetValues ==
    [][ (AutofillStep /\ op'.arg = <<FALSE>>) =>
          /\ \A k \in DOMAIN manual_values :
                manual_values[k] # <<>> =>
                   /\ manual_values'[k] = manual_values[k]
                   /\ k \notin {ret'[i] : i \in 1..Len(ret')}
          /\ ret' = SelectSeq(FOUR_KEYS, LAMBDA k : manual_values'[k] # manual_values[k])
      ]_vars

\* a call without override left the plant code B although every row says A, and
\* filled the cost centre
C7_Witness ==
    /\ AutofillDone /\ op.arg = <<FALSE>>
    /\ manual_values["is_yeri_kodu"] = V_B
    /\ KeyValues(heap[src_df], "is_yeri_kodu") # <<>>
    /\ \A i \in 1..Len(KeyValues(heap[src_df], "is_yeri_kodu")) :
          KeyValues(heap[src_df], "is_yeri_kodu")[i] = V_A
    /\ ret = <<"masraf_yeri_kodu">>

-----------------------------------------------------------------------------
(* MainWindow: undo history, views, handlers *)

\* a mutant of CopyDeep: the snapshot holds the table itself
CopyDeepShared(h, ref) == [heap |-> h, ref |-> ref]

\* None if df is None else df.copy(deep=True), lines 746-748
CopyDeep(h, ref) == IF ref = None THEN [heap |-> h, ref |-> None] ELSE Alloc(h, h[ref])

\* MainWindow._snapshot: the heap and the history afterwards
Snapshot(e, hist) ==
    LET a == CopyDeep(e.heap, e.src_df)
        b == CopyDeep(a.heap, e.staged_df)
        c == CopyDeep(b.heap, e.processed_df)
        snap == [src |-> a.ref, staged |-> b.ref, processed |-> c.ref,
                 files_top |-> e.loaded_files_top,
                 files_bottom |-> e.loaded_files_bottom,
                 manual |-> e.manual_values]
    IN  [heap |-> c.heap,
         history |-> IF Len(hist) + 1 > HistoryCap THEN Tail(Append(hist, snap))
                     ELSE Append(hist, snap)]

\* the table a view gets: df when it holds rows, else a new pd.DataFrame()
ViewOf(h, ref) == IF DfEmpty(h, ref) THEN Alloc(h, EmptyTable) ELSE [heap |-> h, ref |-> ref]

\* MainWindow._refresh_from_state: the heap and the two views
Refresh(e) ==
    LET t == ViewOf(e.heap, e.src_df)
        b == ViewOf(t.heap, e.staged_df)
    IN  [heap |-> b.heap, top |-> t.ref, bottom |-> b.ref]

\* MainWindow._restore without the refresh, lines 757-763
Restore(e, snap) ==
    [e EXCEPT !.src_df = snap.src, !.staged_df = snap.staged,
              !.processed_df = snap.processed,
              !.loaded_files_top = snap.files_top,
              !.loaded_files_bottom = snap.files_bottom,
              !.manual_values = snap.manual]

\* what the file dialogs return
PathLists == { <<P_top>>, <<P_new>>, <<P_more, P_more>>, <<P_empty, P_missing>> }

\* the cell edits of a view: the text typed into the first cell
EditTexts == { <<" ">>, <<" ", "P", "2">> }

\* a handler ran
Ran(name, arg) == /\ steps < MaxSteps
                  /\ steps' = steps + 1
                  /\ op' = [name |-> name, arg |-> arg]

\* the step of a handler that ends in engine e, views mt and mb, history hist
\* and store d
Handler(e, mt, mb, hist, d) ==
    /\ heap' = Collect(e.heap,
                       {e.src_df, e.staged_df, e.processed_df, mt, mb}
                         \cup UNION {SnapRefs(hist[i]) : i \in 1..Len(hist)})
    /\ src_df' = e.src_df
    /\ staged_df' = e.staged_df
    /\ processed_df' = e.processed_df
    /\ loaded_files_top' = e.loaded_files_top
    /\ loaded_files_bottom' = e.loaded_files_bottom
    /\ manual_values' = e.manual_values
    /\ ret' = e.ret
    /\ model_top' = mt
    /\ model_bottom' = mb
    /\ history' = hist
    /\ disk' = d

\* MainWindow.on_open_top
OnOpenTop(paths) ==
    /\ Ran("on_open_top", paths)
    /\ (src_df # None) => Len(heap[src_df].rows) + Len(read_files(paths).rows) <= MaxRows
    /\ \E s \in {Snapshot(EngineNow, history)} :
       \E n \in {Alloc(s.heap, read_files(paths))} :
       \E e1 \in {[EngineNow EXCEPT !.heap = n.heap, !.ret = <<>>]} :
       \E e2 \in {append_to_top(e1, n.ref, paths)} :
       \E e3 \in {autofill_manual_from_df(e2, n.ref, FOUR_KEYS, FALSE)} :
          IF DfEmpty(n.heap, n.ref)
          THEN Handler(e1, model_top, model_bottom, s.history, disk)
          ELSE IF e2.ret = Raised
          THEN Handler(e2, model_top, model_bottom, s.history, disk)
          ELSE \E d \in {save_state(e3, disk)} :
                  Handler(e3, e3.src_df, model_bottom, s.history, d)

\* MainWindow.on_open_bottom
OnOpenBottom(paths) ==
    /\ Ran("on_open_bottom", paths)
    /\ (staged_df # None) =>
          Len(heap[staged_df].rows) + Len(read_files(paths).rows) <= MaxRows
    /\ \E s \in {Snapshot(EngineNow, history)} :
       \E n \in {Alloc(s.heap, read_files(paths))} :
       \E e1 \in {[EngineNow EXCEPT !.heap = n.heap, !.ret = <<>>]} :
       \E e2 \in {append_to_bottom(e1, n.ref, paths)} :
       \E e3 \in {autofill_manual_from_df(e2, n.ref, FOUR_KEYS, FALSE)} :
          IF DfEmpty(n.heap, n.ref)
          THEN Handler(e1, model_top, model_bottom, s.history, disk)
          ELSE IF e2.ret = Raised
          THEN Handler(e2, model_top, model_bottom, s.history, disk)
          ELSE \E d \in {save_state(e3, disk)} :
                  Handler(e3, model_top, e3.staged_df, s.history, d)

\* MainWindow.on_apply
OnApply ==
    /\ Ran("on_apply", <<>>)
    /\ \E s \in {Snapshot(EngineNow, history)} :
       \E e0 \in {[EngineNow EXCEPT !.heap = s.heap, !.ret = <<>>]} :
       \E e1 \in {auto_apply_top(e0)} :
          IF DfEmpty(e1.heap, e1.ret)
          THEN Handler(e1, model_top, model_bottom, s.history, disk)
          ELSE \E d \in {save_state(e1, disk)} :
                  Handler(e1, model_top, model_bottom, s.history, d)

\* MainWindow.on_import_into_system
OnImportIntoSystem ==
    /\ Ran("on_import_into_system", <<>>)
    /\ (src_df # None /\ staged_df # None) =>
          Len(heap[src_df].rows) + Len(heap[staged_df].rows) <= MaxRows
    /\ \E s \in {Snapshot(EngineNow, history)} :
       \E e0 \in {[EngineNow EXCEPT !.heap = s.heap, !.ret = <<>>]} :
       \E e1 \in {import_staged_into_system(e0, TRUE)} :
       \E v \in {IF e1.src_df # None THEN [heap |-> e1.heap, ref |-> e1.src_df]
                 ELSE Alloc(e1.heap, EmptyTable)} :
       \E e2 \in {[e1 EXCEPT !.heap = v.heap]} :
          IF e1.ret = Raised
          THEN Handler(e1, model_top, model_bottom, s.history, disk)
          ELSE \E d \in {save_state(e2, disk)} :
                  Handler(e2, v.ref, model_bottom, s.history, d)

\* MainWindow.on_reset_top
OnResetTop ==
    /\ Ran("on_reset_top", <<>>)
    /\ \E s \in {Snapshot(EngineNow, history)} :
       \E e0 \in {[EngineNow EXCEPT !.heap = s.heap, !.ret = <<>>]} :
       \E r \in {reset_top(e0, disk)} :
       \E v \in {Alloc(r[1].heap, EmptyTable)} :
       \E e2 \in {[r[1] EXCEPT !.heap = v.heap]} :
       \E d \in {save_state(e2, r[2])} :
          Handler(e2, v.ref, model_bottom, s.history, d)

\* MainWindow.on_reset_bottom
OnResetBottom ==
    /\ Ran("on_reset_bottom", <<>>)
    /\ \E s \in {Snapshot(EngineNow, history)} :
       \E e0 \in {[EngineNow EXCEPT !.heap = s.heap, !.ret = <<>>]} :
       \E r \in {reset_bottom(e0, disk)} :
       \E v \in {Alloc(r[1].heap, EmptyTable)} :
       \E e2 \in {[r[1] EXCEPT !.heap = v.heap]} :
       \E d \in {save_state(e2, r[2])} :
          Handler(e2, model_top, v.ref, s.history, d)

\* MainWindow.on_undo with a history; without one it only shows a message
OnUndo ==
    /\ history # <<>>
    /\ Ran("on_undo", <<>>)
    /\ \E e0 \in {[EngineNow EXCEPT !.ret = <<>>]} :
       \E e1 \in {Restore(e0, history[Len(history)])} :
       \E v \in {Refresh(e1)} :
       \E e2 \in {[e1 EXCEPT !.heap = v.heap]} :
       \E d \in {save_state(e2, disk)} :
          Handler(e2, v.top, v.bottom, SubSeq(history, 1, Len(history) - 1), d)

\* the view whose table has the focus
ViewRef(which) == IF which = "top" THEN model_top ELSE model_bottom

\* text and newval of lines 99-100
NewVal(value) == IF Strip(value) = <<>> THEN NA ELSE Strip(value)

\* DataFrameModel.setData on the first cell of a view: the table is changed in place
SetData(which, value) ==
    /\ ~TableEmpty(heap[ViewRef(which)])
    /\ Ran("setData", <<which, value>>)
    /\ \E e1 \in {[EngineNow EXCEPT !.heap[ViewRef(which)].rows[1][1] = NewVal(value),
                                    !.ret = <<>>]} :
          Handler(e1, model_top, model_bottom, history, disk)

\* MainWindow.on_add_row: the row is added to the view's table in place
OnAddRow(which) ==
    /\ Ran("on_add_row", <<which>>)
    /\ Len(heap[ViewRef(which)].rows) < MaxRows
    /\ \E s \in {Snapshot(EngineNow, history)} :
       \E e1 \in {[EngineNow EXCEPT !.heap = s.heap, !.ret = <<>>]} :
       \E t \in {heap[ViewRef(which)]} :
       \E e2 \in {[e1 EXCEPT !.heap[ViewRef(which)].rows =
                                 Append(t.rows, [j \in 1..Len(t.cols) |-> NA])]} :
          IF Len(t.cols) = 0
          THEN Handler(e1, model_top, model_bottom, s.history, disk)
          ELSE \E d \in {save_state(e2, disk)} :
                  Handler(e2, model_top, model_bottom, s.history, d)

\* MainWindow.on_delete_row of the first row, confirmed: removeRows gives the
\* view a new table
OnDeleteRow(which) ==
    /\ Len(heap[ViewRef(which)].rows) > 0
    /\ Ran("on_delete_row", <<which>>)
    /\ \E s \in {Snapshot(EngineNow, history)} :
       \E t \in {heap[ViewRef(which)]} :
       \E v \in {Alloc(s.heap, [t EXCEPT !.rows = Tail(t.rows)])} :
       \E e2 \in {[EngineNow EXCEPT !.heap = v.heap, !.ret = <<>>]} :
       \E d \in {save_state(e2, disk)} :
          Handler(e2, IF which = "top" THEN v.ref ELSE model_top,
                  IF which = "bottom" THEN v.ref ELSE model_bottom, s.history, d)

\* MainWindow.closeEvent, then MainWindow.__init__ of the next run
Restart ==
    /\ Ran("restart", <<>>)
    /\ \E d \in {save_state(EngineNow, disk)} :
       \E e1 \in {load_state(d)} :
       \E v \in {Refresh(e1)} :
       \E e2 \in {[e1 EXCEPT !.heap = v.heap]} :
          Handler(e2, v.top, v.bottom, <<>>, d)

\* the first run of the program: nothing stored, nothing loaded
Init ==
    /\ heap = (1 :> EmptyTable) @@ (2 :> EmptyTable)
    /\ src_df = None
    /\ staged_df = None
    /\ processed_df = None
    /\ loaded_files_top = <<>>
    /\ loaded_files_bottom = <<>>
    /\ manual_values = NoManual
    /\ model_top = 1
    /\ model_bottom = 2
    /\ history = <<>>
    /\ disk = EmptyDisk
    /\ op = [name |-> "init", arg |-> <<>>]
    /\ ret = <<>>
    /\ steps = 0

Next ==
    \/ \E paths \in PathLists : OnOpenTop(paths)
    \/ \E paths \in PathLists : OnOpenBottom(paths)
    \/ OnApply
    \/ OnImportIntoSystem
    \/ OnResetTop
    \/ OnResetBottom
    \/ OnUndo
    \/ \E which \in {"top", "bottom"}, value \in EditTexts : SetData(which, value)
    \/ \E which \in {"top", "bottom"} : OnAddRow(which)
    \/ \E which \in {"top", "bottom"} : OnDeleteRow(which)
    \/ Restart

Spec == Init /\ [][Next]_vars

-----------------------------------------------------------------------------
(* What the claims about the engine's state in the window speak of *)

\* a buffer by value: nothing, or the table
Content(h, ref) == IF ref = None THEN <<>> ELSE <<h[ref]>>

\* the engine's state by value
StateOf ==
    [src |-> Content(heap, src_df), staged |-> Content(heap, staged_df),
     processed |-> Content(heap, processed_df),
     files_top |-> loaded_files_top, files_bottom |-> loaded_files_bottom,
     manual |-> manual_values]

\* a snapshot by value
SnapValue(h, snap) ==
    [src |-> Content(h, snap.src), staged |-> Content(h, snap.staged),
     processed |-> Content(h, snap.processed),
     files_top |-> snap.files_top, files_bottom |-> snap.files_bottom,
     manual |-> snap.manual]

\* the history by value
HistValues(h, hist) == [i \in 1..Len(hist) |-> SnapValue(h, hist[i])]

NoRepeat(files) == \A i, j \in 1..Len(files) : files[i] = files[j] => i = j

\* C3: in every state that the handlers reach from the empty state, no path
\* occurs twice in loaded_files_top and none twice in loaded_files_bottom
C3_NoDuplicatePaths == NoRepeat(loaded_files_top) /\ NoRepeat(loaded_files_bottom)

\* files were opened with a path named twice, and the path is listed
C3_Witness ==
    /\ op.name = "on_open_top" /\ op.arg = <<P_more, P_more>>
    /\ \E i \in 1..Len(loaded_files_top) : loaded_files_top[i] = P_more
    /\ Len(heap[src_df].rows) >= 2

\* the handlers that take a snapshot before they act
Snapshotting == {"on_open_top", "on_open_bottom", "on_apply", "on_import_into_system",
                 "on_reset_top", "on_reset_bottom", "on_add_row", "on_delete_row"}

\* the newest n values of a sequence
Newest(seq, n) == IF Len(seq) <= n THEN seq ELSE SubSeq(seq, Len(seq) - n + 1, Len(seq))

\* C4: the history is a stack of engine states by value. A handler that takes a
\* snapshot pushes the state it started in, a cell edit made in place leaves
\* every kept snapshot as it was, and an undo makes the engine's state the
\* value on top and pops it
C4_UndoRestoresSnapshot ==
    [][ /\ op'.name \in Snapshotting =>
              HistValues(heap', history') =
                 Newest(Append(HistValues(heap, history), StateOf), HistoryCap)
        /\ op'.name = "setData" => HistValues(heap', history') = HistValues(heap, history)
        /\ op'.name = "on_undo" =>
              /\ StateOf' = SnapValue(heap, history[Len(history)])
              /\ HistValues(heap', history') =
                    SubSeq(HistValues(heap, history), 1, Len(history) - 1)
      ]_vars

\* an undo has brought back a loaded top table that the view shows, and the
\* snapshot of the empty state is still kept under it
C4_Witness ==
    /\ op.name = "on_undo"
    /\ src_df # None /\ model_top = src_df /\ Len(heap[src_df].rows) >= 1
    /\ history # <<>>
    /\ SnapValue(heap, history[1]).src = <<>>

\* the state by value of an engine e
ValueOf(e) ==
    [src |-> Content(e.heap, e.src_df), staged |-> Content(e.heap, e.staged_df),
     processed |-> Content(e.heap, e.processed_df),
     files_top |-> e.loaded_files_top, files_bottom |-> e.loaded_files_bottom,
     manual |-> e.manual_values]

\* C5 as claimed: in every reachable state, save_state and then load_state into
\* a new engine on the same store gives the state that was saved
C5_PersistenceRoundTrip == ValueOf(load_state(save_state(EngineNow, disk))) = StateOf

\* an undo has emptied the top buffer and the store still holds a top table
C5_StaleArtifact ==
    /\ op.name = "on_undo"
    /\ src_df = None
    /\ disk.src_df # <<>>
    /\ ValueOf(load_state(save_state(EngineNow, disk))).src # <<>>

-----------------------------------------------------------------------------
(* The specification of the engine called with tables of the caller's *)

\* a table with a header that occurs twice
T_dup ==
    [cols |-> <<H_plant, H_cc, H_AMOR, H_AMOR>>,
     rows |-> << << <<"P", "1">>, <<"C", "1">>, <<"1", "0">>, <<"1", "1">> >> >>]

\* a table with the key of T_dup's row, spelled otherwise, under the labels
T_label ==
    [cols |-> LayLabel,
     rows |-> << << <<" ", "p", "1", " ">>, <<"c", "1">>, <<"2", "0">> >> >>]

\* a table with another key under the labels
T_other ==
    [cols |-> LayLabel,
     rows |-> << << <<"P", "2">>, <<"C", "1">>, <<"3", "0">> >> >>]

ApiTables == {T_dup, T_label, T_other, EmptyTable}

ApiPaths == { <<P_top>>, <<P_new, P_new>> }

\* the rows a buffer may hold before a call appends to it
MaxApiRows == 1

InitApi ==
    /\ heap = <<>>
    /\ src_df = None
    /\ staged_df = None
    /\ processed_df = None
    /\ loaded_files_top = <<>>
    /\ loaded_files_bottom = <<>>
    /\ manual_values = NoManual
    /\ model_top = None
    /\ model_bottom = None
    /\ history = <<>>
    /\ disk = EmptyDisk
    /\ op = [name |-> "init", arg |-> <<>>]
    /\ ret = <<>>
    /\ steps = 0

\* one call of append_to_top with a table of the caller's
AppendTopCall(t, paths) ==
    /\ Len(Rows(heap, src_df).rows) <= MaxApiRows
    /\ Len(Rows(heap, src_df).rows) + Len(t.rows) <= MaxRows
    /\ \E n \in {Alloc(heap, t)} :
       \E e1 \in {append_to_top([EngineNow EXCEPT !.heap = n.heap, !.ret = <<>>],
                                n.ref, paths)} :
          Leave(e1, model_top, model_bottom, history, disk,
                [name |-> "append_to_top", arg |-> <<t, paths>>])
    /\ UNCHANGED steps

\* one call of append_to_bottom
AppendBottomCall(t, paths) ==
    /\ Len(Rows(heap, staged_df).rows) <= MaxApiRows
    /\ Len(Rows(heap, staged_df).rows) + Len(t.rows) <= MaxRows
    /\ \E n \in {Alloc(heap, t)} :
       \E e1 \in {append_to_bottom([EngineNow EXCEPT !.heap = n.heap, !.ret = <<>>],
                                   n.ref, paths)} :
          Leave(e1, model_top, model_bottom, history, disk,
                [name |-> "append_to_bottom", arg |-> <<t, paths>>])
    /\ UNCHANGED steps

NextApi ==
    \/ \E t \in ApiTables, paths \in ApiPaths : AppendTopCall(t, paths)
    \/ \E t \in ApiTables, paths \in ApiPaths : AppendBottomCall(t, paths)
    \/ \E replace_on_keys \in BOOLEAN : ImportCall(replace_on_keys)

SpecApi == InitApi /\ [][NextApi]_vars

\* the rows of add are the last rows of new, cell by cell
EndsWith(new, add) ==
    /\ Len(new.rows) >= Len(add.rows)
    /\ \A j \in 1..Len(add.rows) :
          IF new.cols = add.cols
          THEN new.rows[Len(new.rows) - Len(add.rows) + j] = add.rows[j]
          ELSE SameCells(new, Len(new.rows) - Len(add.rows) + j, add, j)

\* every path given is listed
Listed(files, paths) ==
    \A k \in 1..Len(paths) : \E i \in 1..Len(files) : files[i] = paths[k]

-----------------------------------------------------------------------------
(* The specification of the engine called with empty and absent tables *)

\* what a caller can give: no table at all, pd.DataFrame(), headers without
\* rows, tables with a row
Absent == [cols |-> <<>>, rows |-> <<>>, absent |-> TRUE]
HeadOnly == [cols |-> LayLabel, rows |-> <<>>]
GivenTables == {Absent, EmptyTable, HeadOnly, T_label, T_other}

\* the paths a table is given with
GivenPaths(t) == IF t \in {T_label, T_other} THEN <<P_top>> ELSE <<P_new>>

\* the reference the engine is called with: None for no table
Given(h, t) == IF t = Absent THEN [heap |-> h, ref |-> None] ELSE Alloc(h, t)

\* append_to_top(t, paths); ret is what the call returned, None
GivenTop(t, paths) ==
    /\ Len(Rows(heap, src_df).rows) <= MaxApiRows
    /\ \E n \in {Given(heap, t)} :
       \E e1 \in {append_to_top([EngineNow EXCEPT !.heap = n.heap, !.ret = None],
                                n.ref, paths)} :
          Leave(e1, model_top, model_bottom, history, disk,
                [name |-> "append_to_top", arg |-> <<t, paths>>])
    /\ UNCHANGED steps

\* append_to_bottom(t, paths)
GivenBottom(t, paths) ==
    /\ Len(Rows(heap, staged_df).rows) <= MaxApiRows
    /\ \E n \in {Given(heap, t)} :
       \E e1 \in {append_to_bottom([EngineNow EXCEPT !.heap = n.heap, !.ret = None],
                                   n.ref, paths)} :
          Leave(e1, model_top, model_bottom, history, disk,
                [name |-> "append_to_bottom", arg |-> <<t, paths>>])
    /\ UNCHANGED steps

\* autofill_manual_from_df(t, FOUR_KEYS, override)
GivenAutofill(t, override) ==
    /\ \E n \in {Given(heap, t)} :
       \E e1 \in {autofill_manual_from_df([EngineNow EXCEPT !.heap = n.heap],
                                          n.ref, FOUR_KEYS, override)} :
          Leave(e1, model_top, model_bottom, history, disk,
                [name |-> "autofill_manual_from_df", arg |-> <<t, override>>])
    /\ UNCHANGED steps

NextGiven ==
    \/ \E t \in GivenTables : GivenTop(t, GivenPaths(t))
    \/ \E t \in GivenTables : GivenBottom(t, GivenPaths(t))
    \/ \E t \in GivenTables, override \in BOOLEAN : GivenAutofill(t, override)
    \/ \E replace_on_keys \in BOOLEAN : ImportCall(replace_on_keys)

SpecGiven == InitApi /\ [][NextGiven]_vars

\* the table given is absent or empty
GivenEmpty(t) == t = Absent \/ TableEmpty(t)

\* C11: an append or an autofill called with no table or an empty one, and an
\* import with an empty staged buffer, leave every field of the engine as it
\* was, the path lists too, and return None, [] and (0, 0)
C11_EmptyInputIsNoOp ==
    [][ /\ (op'.name \in {"append_to_top", "append_to_bottom"} /\ GivenEmpty(op'.arg[1]))
            => (StateOf' = StateOf /\ ret' = None)
        /\ (op'.name = "autofill_manual_from_df" /\ GivenEmpty(op'.arg[1]))
            => (StateOf' = StateOf /\ ret' = <<>>)
        /\ (op'.name = "import_staged_into_system" /\ DfEmpty(heap, staged_df))
            => (StateOf' = StateOf /\ ret' = <<0, 0>>)
      ]_vars

\* headers without rows were appended to a loaded top buffer under a path that
\* is not listed
C11_Witness ==
    /\ op.name = "append_to_top"
    /\ op.arg = <<HeadOnly, <<P_new>> >>
    /\ src_df # None /\ Len(heap[src_df].rows) >= 1
    /\ loaded_files_top = <<P_top>>

-----------------------------------------------------------------------------
(* The specification of the engine and its store: appends, mapping, save, *)
(* load, the resets, and files going bad                                   *)

\* calls in one behaviour of the engine with its store
MaxStoreSteps == 5

\* a call ran
StoreRan(name, arg) == /\ steps < MaxStoreSteps
                       /\ steps' = steps + 1
                       /\ op' = [name |-> name, arg |-> arg]

\* append_to_top of a table read from top.csv
StoreAppendTop ==
    /\ StoreRan("append_to_top", <<P_top>>)
    /\ Len(Rows(heap, src_df).rows) <= MaxApiRows
    /\ \E n \in {Alloc(heap, T_other)} :
       \E e1 \in {append_to_top([EngineNow EXCEPT !.heap = n.heap, !.ret = None],
                                n.ref, <<P_top>>)} :
          Handler(e1, model_top, model_bottom, history, disk)

\* append_to_bottom of a table read from new.csv
StoreAppendBottom ==
    /\ StoreRan("append_to_bottom", <<P_new>>)
    /\ Len(Rows(heap, staged_df).rows) <= MaxApiRows
    /\ \E n \in {Alloc(heap, T_label)} :
       \E e1 \in {append_to_bottom([EngineNow EXCEPT !.heap = n.heap, !.ret = None],
                                   n.ref, <<P_new>>)} :
          Handler(e1, model_top, model_bottom, history, disk)

\* auto_apply_top
StoreApply ==
    /\ StoreRan("auto_apply_top", <<>>)
    /\ \E e1 \in {auto_apply_top(EngineNow)} :
          Handler(e1, model_top, model_bottom, history, disk)

\* autofill_manual_from_df on the top buffer
StoreAutofill ==
    /\ StoreRan("autofill_manual_from_df", <<>>)
    /\ \E e1 \in {autofill_manual_from_df(EngineNow, src_df, FOUR_KEYS, FALSE)} :
          Handler(e1, model_top, model_bottom, history, disk)

\* save_state
StoreSave ==
    /\ StoreRan("save_state", <<>>)
    /\ \E d \in {save_state(EngineNow, disk)} :
          Handler([EngineNow EXCEPT !.ret = None], model_top, model_bottom, history, d)

\* a new Engine on the store, and load_state
StoreLoad ==
    /\ StoreRan("load_state", <<>>)
    /\ \E e1 \in {load_state(disk)} :
          Handler([e1 EXCEPT !.ret = None], model_top, model_bottom, history, disk)

\* reset_top, reset_bottom, reset_state
StoreReset(name) ==
    /\ StoreRan(name, <<>>)
    /\ \E r \in {CASE name = "reset_top" -> reset_top(EngineNow, disk)
                   [] name = "reset_bottom" -> reset_bottom(EngineNow, disk)
                   [] OTHER -> reset_state(EngineNow, disk)} :
          Handler([r[1] EXCEPT !.ret = None], model_top, model_bottom, history, r[2])

\* a file of the store goes bad
StoreDamage(f) ==
    /\ disk[f] # <<>> /\ disk[f] # Corrupt
    /\ StoreRan("damage", <<f>>)
    /\ Handler([EngineNow EXCEPT !.ret = None], model_top, model_bottom, history,
               [disk EXCEPT ![f] = Corrupt])

NextStore ==
    \/ StoreAppendTop
    \/ StoreAppendBottom
    \/ StoreApply
    \/ StoreAutofill
    \/ StoreSave
    \/ StoreLoad
    \/ \E name \in {"reset_top", "reset_bottom", "reset_state"} : StoreReset(name)
    \/ \E f \in {"src_df", "staged_df", "processed_df", "config"} : StoreDamage(f)

SpecStore == InitApi /\ [][NextStore]_vars

C13_FailedLoadStartsEmpty ==
    [][ ( /\ op'.name = "load_state"
          /\ \E f \in {"src_df", "staged_df", "processed_df", "config"} : disk[f] = Corrupt )
        => (StateOf' = ValueOf(NewEngine) /\ ret' = None)
      ]_vars

\* a load has met a staged pickle it cannot read after it had read the top one
C13_PartialLoad ==
    /\ op.name = "load_state"
    /\ disk.staged_df = Corrupt
    /\ disk.src_df # <<>> /\ disk.src_df # Corrupt
    /\ src_df # None /\ staged_df = None

-----------------------------------------------------------------------------
(* What the claim about the ownership of the buffers speaks of *)

\* C14 as claimed: the engine's buffers share storage with no table that the
\* presentation layer holds, so a cell edit that the table view makes in place
\* on its table (setData) leaves the engine's state as it was
C14_EditsLeaveEngine ==
    [][ op'.name = "setData" => StateOf' = StateOf ]_vars

\* the top view shows the object that is the engine's top buffer, and the text
\* typed into its first cell is in the buffer
C14_SharedStorage ==
    /\ op.name = "setData" /\ op.arg[1] = "top"
    /\ src_df # None /\ model_top = src_df
    /\ heap[src_df].rows[1][1] = NewVal(op.arg[2])

-----------------------------------------------------------------------------
(* The specification of the mapper on drawn headers and mappings *)

\* rows of a table drawn as an input of apply_mapping
MaxMapRows == 2
\* headers of a table drawn as an input of the mapper
MaxMapCols == 3

\* headers that match a candidate exactly (two of them normalise alike), that
\* only come close to one, that match none, and the provenance column
MapperHeaders == {H_plant, H_PLANT, H_plants, H_cc, H_cost_centers, H_AMOR,
                  H_kaynak_dosya}

\* the header sequences without a repeated header
HeaderSeqs ==
    UNION { {hs \in [1..n -> MapperHeaders] :
               \A i, j \in 1..n : hs[i] = hs[j] => i = j} : n \in 1..MaxMapCols }

\* a table of n rows under the headers cols
MapperTable(cols, n) ==
    [cols |-> cols,
     rows |-> [i \in 1..n |->
                 [j \in 1..Len(cols) |->
                     IF cols[j] = H_kaynak_dosya THEN PathName(P_top)
                     ELSE <<LowerSeq[i], LowerSeq[j]>>]]]

\* mappings that a caller of apply_mapping can give for the headers cols: a
\* header of the table, no header, or a header the table lacks
MapChoices(cols) ==
    { [is_yeri_kodu |-> a, masraf_yeri_kodu |-> b, makine_kodu |-> NoCol,
       makine_adi |-> NoCol, malzeme_adi |-> c] :
        a \in {cols[i] : i \in 1..Len(cols)} \cup {NoCol, H_account},
        b \in {NoCol, cols[1]},
        c \in {NoCol, cols[Len(cols)]} }

InitMapper ==
    /\ src_df = 1
    /\ \E cols \in HeaderSeqs, n \in 1..MaxMapRows : heap = (1 :> MapperTable(cols, n))
    /\ staged_df = None
    /\ processed_df = None
    /\ loaded_files_top = <<>>
    /\ loaded_files_bottom = <<>>
    /\ manual_values = NoManual
    /\ model_top = None
    /\ model_bottom = None
    /\ history = <<>>
    /\ disk = EmptyDisk
    /\ op = [name |-> "init", arg |-> <<>>]
    /\ ret = <<>>
    /\ steps = 0

\* Mapper.suggest_mapping(list(df.columns)); ret is the mapping
SuggestCall ==
    /\ op.name = "init"
    /\ \E m \in {suggest_mapping(heap[src_df].cols)} :
          Leave([EngineNow EXCEPT !.ret = m], model_top, model_bottom, history, disk,
                [name |-> "suggest_mapping", arg |-> <<>>])
    /\ UNCHANGED steps

\* Mapper.apply_mapping(df, mapping) with a mapping of the caller's or the one
\* that suggest_mapping gives; ret is the table
ApplyCall ==
    /\ op.name = "init"
    /\ \E mapping \in MapChoices(heap[src_df].cols) \cup {suggest_mapping(heap[src_df].cols)} :
       \E out \in {apply_mapping(heap[src_df], mapping)} :
          Leave([EngineNow EXCEPT !.ret = out], model_top, model_bottom, history, disk,
                [name |-> "apply_mapping", arg |-> <<mapping>>])
    /\ UNCHANGED steps

NextMapper == SuggestCall \/ ApplyCall

SpecMapper == InitMapper /\ [][NextMapper]_vars

MapperKeys == {SchemaKeys[i] : i \in 1..Len(SchemaKeys)}

\* the headers that equal a candidate of key after normalisation
ExactHeaders(headers, key) ==
    {headers[i] : i \in {i \in 1..Len(headers) :
                           \E c \in 1..Len(MapperCands(key)) :
                               Norm(headers[i]) = Norm(MapperCands(key)[c])}}

\* the headers whose normal form comes close to a candidate of key
CloseHeaders(headers, key) ==
    {headers[i] : i \in {i \in 1..Len(headers) : CloseTable[headers[i]][key]}}

\* C15: suggest_mapping maps every field with a header that equals a candidate
\* after normalisation to such a header, wherever it stands and whatever
\* headers come close; a field without one to a header that comes close to a
\* candidate, if there is one; and to none else
C15_ExactBeforeFuzzy ==
    op.name = "suggest_mapping" =>
        \A key \in MapperKeys :
            IF ExactHeaders(heap[src_df].cols, key) # {}
            THEN ret[key] \in ExactHeaders(heap[src_df].cols, key)
            ELSE IF CloseHeaders(heap[src_df].cols, key) # {}
            THEN ret[key] \in CloseHeaders(heap[src_df].cols, key)
            ELSE ret[key] = NoCol

\* a header that only comes close stands before the one that matches exactly,
\* and the field is mapped to the latter
C15_Witness ==
    /\ op.name = "suggest_mapping"
    /\ heap[src_df].cols = <<H_cost_centers, H_cc>>
    /\ ret["masraf_yeri_kodu"] = H_cc
    /\ ret["is_yeri_kodu"] = NoCol

\* C16 as claimed: of the headers that normalise to the key a field is matched
\* through, suggest_mapping gives the one that stands first
C16_FirstSeenWins ==
    op.name = "suggest_mapping" =>
        \A key \in MapperKeys :
            ret[key] # NoCol =>
                \A i, j \in 1..Len(heap[src_df].cols) :
                    ( /\ heap[src_df].cols[j] = ret[key]
                      /\ Norm(heap[src_df].cols[i]) = Norm(ret[key]) ) => j <= i

\* of two headers that normalise alike the field is mapped to the second
C16_LastSeenWins ==
    /\ op.name = "suggest_mapping"
    /\ heap[src_df].cols = <<H_plant, H_PLANT>>
    /\ ret["is_yeri_kodu"] = H_PLANT

\* C17: the columns of apply_mapping's table are the five display labels in
\* schema order, and then the provenance column exactly when the input has it;
\* the column of a field mapped to a header of the input holds that header's
\* cells row by row, the column of any other field holds a null in every row,
\* and the provenance cells are those of the input
C17_ApplyMappingShape ==
    op.name = "apply_mapping" =>
        LET df == heap[src_df]
            m == op.arg[1]
            n == Len(SchemaKeys)
        IN  /\ ret.cols = [k \in 1..n |-> DEFAULT_SCHEMA(SchemaKeys[k]).label]
                             \o (IF HasCol(df, H_kaynak_dosya) THEN <<H_kaynak_dosya>>
                                 ELSE <<>>)
            /\ \A k \in 1..n :
                  IF m[SchemaKeys[k]] # NoCol /\ HasCol(df, m[SchemaKeys[k]])
                  THEN /\ Len(ret.rows) = Len(df.rows)
                       /\ \A i \in 1..Len(df.rows) :
                             ret.rows[i][k] = Cell(df, i, m[SchemaKeys[k]])
                  ELSE \A i \in 1..Len(ret.rows) : ret.rows[i][k] \in {NA, NaN}
            /\ HasCol(df, H_kaynak_dosya) =>
                  /\ Len(ret.rows) = Len(df.rows)
                  /\ \A i \in 1..Len(df.rows) :
                        ret.rows[i][n + 1] = Cell(df, i, H_kaynak_dosya)

\* a table with the provenance column, the first field unmapped, a later one
\* mapped: the unmapped column was written before the table had rows
C17_Witness ==
    /\ op.name = "apply_mapping"
    /\ HasCol(heap[src_df], H_kaynak_dosya)
    /\ op.arg[1]["is_yeri_kodu"] = NoCol
    /\ op.arg[1]["malzeme_adi"] # NoCol
    /\ Len(ret.rows) = MaxMapRows
    /\ ret.rows[1][1] = NaN

-----------------------------------------------------------------------------
(* The specification of resolve_columns on drawn headers *)

\* headers of a table drawn as an input of resolve_columns
MaxResolveCols == 3

\* the header sequences of cost tables, without a repeated header
CostHeaderSeqs ==
    UNION { {hs \in [1..n -> CostHeaders] :
               \A i, j \in 1..n : hs[i] = hs[j] => i = j} : n \in 1..MaxResolveCols }

InitResolve ==
    /\ src_df = 1
    /\ \E cols \in CostHeaderSeqs : heap = (1 :> MapperTable(cols, 1))
    /\ staged_df = None
    /\ processed_df = None
    /\ loaded_files_top = <<>>
    /\ loaded_files_bottom = <<>>
    /\ manual_values = NoManual
    /\ model_top = None
    /\ model_bottom = None
    /\ history = <<>>
    /\ disk = EmptyDisk
    /\ op = [name |-> "init", arg |-> <<>>]
    /\ ret = <<>>
    /\ steps = 0

\* resolve_columns(df); ret is the FoundColumns
ResolveCall ==
    /\ op.name = "init"
    /\ \E found \in {resolve_columns(heap[src_df])} :
          Leave([EngineNow EXCEPT !.ret = found], model_top, model_bottom, history, disk,
                [name |-> "resolve_columns", arg |-> <<>>])
    /\ UNCHANGED steps

NextResolve == ResolveCall

SpecResolve == InitResolve /\ [][NextResolve]_vars

\* col is what the two passes give for the headers cols: a header that equals
\* the first candidate that any header equals after normalisation; without
\* one, the first header that contains a candidate; without one, nothing
TwoPass(cols, cands, col) ==
    LET exact == {k \in 1..Len(cands) :
                     \E i \in 1..Len(cols) : Norm(cols[i]) = Norm(cands[k])}
        holds == {i \in 1..Len(cols) :
                     \E k \in 1..Len(cands) : Contains(Norm(cols[i]), Norm(cands[k]))}
    IN  IF exact # {}
        THEN \E k \in exact :
                /\ \A j \in exact : k <= j
                /\ \E i \in 1..Len(cols) : cols[i] = col /\ Norm(col) = Norm(cands[k])
        ELSE IF holds # {}
        THEN \E i \in holds : (\A j \in holds : i <= j) /\ col = cols[i]
        ELSE col = NoCol

\* C18: resolve_columns gives, for the two key fields and for every component,
\* a header that equals a candidate after normalisation, for the first
\* candidate in candidate order that has one; when no candidate has one, the
\* first header in column order whose normal form contains a candidate's; and
\* nothing when there is none either
C18_TwoPassResolution ==
    op.name = "resolve_columns" =>
        LET cols == heap[src_df].cols
        IN  /\ TwoPass(cols, PLANT_COL_CANDIDATES, ret.plant_col)
            /\ TwoPass(cols, CCTR_COL_CANDIDATES, ret.cctr_col)
            /\ \A c \in 1..Len(COMPONENTS) :
                  TwoPass(cols, COMP_COL_CANDIDATES(COMPONENTS[c]),
                          ret.comp_cols[COMPONENTS[c]])

\* the plant column is the header of the earlier candidate though another
\* exact one stands before it; the cost centre column is found by the
\* substring pass alone; a component is unresolved
C18_Witness ==
    /\ op.name = "resolve_columns"
    /\ heap[src_df].cols = <<H_account, H_site, H_plant>>
    /\ ret.plant_col = H_plant
    /\ ret.cctr_col = H_account
    /\ ret.comp_cols["AMOR"] = NoCol

-----------------------------------------------------------------------------
(* The specification of the two filters on drawn tables and codes *)

\* rows of a table drawn as an input of the filters
MaxFilterRows == 2

\* plant cells: a code, the code in other case between spaces, a longer code
\* that contains it, a code with a capital I, and a missing cell
PlantCells == { <<"P", "1">>, <<" ", "p", "1", " ">>, <<"P", "1", "-", "E", "X", "T">>,
                <<"I", "1">>, NaN }

\* cost centre cells
CctrCells == { <<"C", "1">>, <<"C", "2">> }

\* plant codes: none, one that equals cells, one that cells only contain, one
\* that matches nothing, and one typed with the dotless i
PlantCodes == { <<>>, <<"p", "1">>, <<"E", "X", "T">>, <<"P", "9">>, <<"U0131", "1">> }

\* cost centre codes
CctrCodes == { <<>>, <<"c", "1">> }

\* the headers: both key columns, the plant column under a header that no
\* candidate matches, and both with the provenance column
FilterCols == { <<H_plant, H_cc>>, <<H_qty, H_cc>>, <<H_plant, H_cc, H_kaynak_dosya>> }

\* a table of the rows of cells under the headers cols
FilterTable(cols, cells) ==
    [cols |-> cols,
     rows |-> [i \in 1..Len(cells) |->
                 [j \in 1..Len(cols) |->
                     IF j <= 2 THEN cells[i][j] ELSE PathName(P_top)]]]

InitFilter ==
    /\ src_df = 1
    /\ \E cols \in FilterCols, n \in 0..MaxFilterRows :
       \E cells \in [1..n -> PlantCells \X CctrCells] :
          heap = (1 :> FilterTable(cols, cells))
    /\ staged_df = None
    /\ processed_df = None
    /\ loaded_files_top = <<>>
    /\ loaded_files_bottom = <<>>
    /\ manual_values = NoManual
    /\ model_top = None
    /\ model_bottom = None
    /\ history = <<>>
    /\ disk = EmptyDisk
    /\ op = [name |-> "init", arg |-> <<>>]
    /\ ret = <<>>
    /\ steps = 0

\* filter_by_codes(src_df, isyeri_kodu, masraf_yeri_kodu, resolve_columns(src_df)),
\* as compute_by_plant_costcenter calls it; ret is the table
FilterByCodesCall ==
    /\ op.name = "init"
    /\ \E plant_code \in PlantCodes, cctr_code \in CctrCodes :
       \E out \in {filter_by_codes(heap[src_df], plant_code, cctr_code,
                                   resolve_columns(heap[src_df]))} :
          Leave([EngineNow EXCEPT !.ret = out], model_top, model_bottom, history, disk,
                [name |-> "filter_by_codes", arg |-> <<plant_code, cctr_code>>])
    /\ UNCHANGED steps

\* Engine.filter_df_by_codes(src_df, isyeri, masraf); ret is the table
FilterDfByCodesCall ==
    /\ op.name = "init"
    /\ \E isyeri \in PlantCodes, masraf \in CctrCodes :
       \E out \in {filter_df_by_codes(heap[src_df], isyeri, masraf)} :
          Leave([EngineNow EXCEPT !.ret = out], model_top, model_bottom, history, disk,
                [name |-> "filter_df_by_codes", arg |-> <<isyeri, masraf>>])
    /\ UNCHANGED steps

NextFilter == FilterByCodesCall \/ FilterDfByCodesCall

SpecFilter == InitFilter /\ [][NextFilter]_vars

\* the cell of row i in column col as the filters read it
FilterText(t, i, col) == Strip(AsStr(Cell(t, i, col)))

\* row i satisfies the constraint of code on column col: no constraint for an
\* empty code or a column that is not resolved; equality without regard to
\* case when some row is equal; containment without regard to case else
Satisfies(t, col, code, i) ==
    IF code = <<>> \/ col = NoCol THEN TRUE
    ELSE IF \E j \in 1..Len(t.rows) : Casefold(FilterText(t, j, col)) = Casefold(code)
    THEN Casefold(FilterText(t, i, col)) = Casefold(code)
    ELSE Contains(Casefold(FilterText(t, i, col)), Casefold(code))

\* the rows of out are the rows of t at the indices keep, in the order of t
RowsKept(out, t, keep) ==
    /\ Len(out.rows) = Cardinality(keep)
    /\ \A i \in keep :
          \A j \in 1..Len(t.cols) :
              Cell(out, Cardinality({l \in keep : l <= i}), t.cols[j]) = Cell(t, i, t.cols[j])

\* C19 as claimed: both filters return, in input order, the rows that satisfy
\* the constraint of the plant code and that of the cost centre code, each
\* constraint being equality without regard to case when some row is equal
\* to the code and containment without regard to case when none is
C19_FilterByCodes ==
    op.name \in {"filter_by_codes", "filter_df_by_codes"} =>
        LET df == heap[src_df]
            plant_col == IF op.name = "filter_by_codes" THEN resolve_columns(df).plant_col
                         ELSE find_col_by_candidates(df, Cands("is_yeri_kodu"))
            cctr_col == IF op.name = "filter_by_codes" THEN resolve_columns(df).cctr_col
                        ELSE find_col_by_candidates(df, Cands("masraf_yeri_kodu"))
        IN  RowsKept(ret, df,
                     {i \in 1..Len(df.rows) :
                         /\ Satisfies(df, plant_col, op.arg[1], i)
                         /\ Satisfies(df, cctr_col, op.arg[2], i)})

\* no plant cell equals the code typed with the dotless i after casefold, nor
\* contains it, and the filter returns the rows with the capital I
C19_DotlessCode ==
    /\ op.name = "filter_by_codes"
    /\ op.arg = << <<"U0131", "1">>, <<>> >>
    /\ heap[src_df].cols = <<H_plant, H_cc>>
    /\ Len(heap[src_df].rows) = 2
    /\ Cell(heap[src_df], 1, H_plant) = <<"I", "1">>
    /\ Cell(heap[src_df], 2, H_plant) = <<"P", "1">>
    /\ Len(ret.rows) = 1
    /\ Cell(ret, 1, H_plant) = <<"I", "1">>

-----------------------------------------------------------------------------
(* The specification of _to_float on drawn literals *)

\* characters of a literal drawn as an input of _to_float
MaxLiteralLen == 5

\* the characters literals are drawn from
LiteralChars == {"1", "0", ",", "."}

\* the inputs: every string of the characters up to the length, the literals
\* of the documentation, null texts and null cells, a literal between spaces,
\* blanks, and literals with letters and inner spaces
Literals ==
    UNION {[1..n -> LiteralChars] : n \in 0..MaxLiteralLen}
    \cup { <<"1", ".", "2", "3", "4", ",", "5", "6">>,
           <<"1", ",", "2", "3", "4", ".", "5", "6">>,
           <<"1", "2", "3", "4", ".", "5", "6">>,
           <<"n", "a", "n">>, <<"N", "o", "n", "e">>,
           <<" ", "1", ",", "5", " ">>,
           <<" ", " ">>, <<"a", "b", "c">>, <<"1", " ", "2">>,
           <<"1", " ", "0", ".", "0", ",", "1">>,
           NaN, NA }

InitFloat ==
    /\ heap = <<>>
    /\ src_df = None
    /\ staged_df = None
    /\ processed_df = None
    /\ loaded_files_top = <<>>
    /\ loaded_files_bottom = <<>>
    /\ manual_values = NoManual
    /\ model_top = None
    /\ model_bottom = None
    /\ history = <<>>
    /\ disk = EmptyDisk
    /\ \E x \in Literals : op = [name |-> "init", arg |-> <<x>>]
    /\ ret = <<>>
    /\ steps = 0

\* _to_float(x); ret is the float
ToFloatCall ==
    /\ op.name = "init"
    /\ \E v \in {to_float(op.arg[1])} :
          Leave([EngineNow EXCEPT !.ret = v], model_top, model_bottom, history, disk,
                [name |-> "to_float", arg |-> op.arg])
    /\ UNCHANGED steps

NextFloat == ToFloatCall

SpecFloat == InitFloat /\ [][NextFloat]_vars

\* the literal read by the rule: with a comma and a dot, the rightmost of the
\* two is the decimal point and the other is removed; with a comma only, the
\* comma is the decimal point; else the literal as it is
RuleText(s) ==
    IF RFind(s, ",") > 0 /\ RFind(s, ".") > 0
    THEN IF RFind(s, ",") > RFind(s, ".")
         THEN Replace(Remove(s, "."), ",", ".")
         ELSE Remove(s, ",")
    ELSE IF RFind(s, ",") > 0 THEN Replace(s, ",", ".")
    ELSE s

\* C20 as claimed: a literal that the separator rule reads as a number yields
\* that number
C20_SeparatorRule ==
    op.name = "to_float" =>
        LET s == Strip(op.arg[1])
        IN  ParseFloat(RuleText(s)) # ValueError => ret = ParseFloat(RuleText(s))

\* the literal with the comma for the thousands and the dot for the decimals
\* yields zero
C20_DotLastIsZero ==
    /\ op.name = "to_float"
    /\ op.arg[1] = <<"1", ",", "2", "3", "4", ".", "5", "6">>
    /\ ret = Decimal(0, 0)

\* a literal that is no number under the separator rule, with or without its
\* inner spaces
Unparseable(s) ==
    /\ ParseFloat(RuleText(s)) = ValueError
    /\ ParseFloat(RuleText(Remove(s, " "))) = ValueError

\* C21: _to_float returns a float for every input and raises for none; an
\* empty or blank input, the texts nan and none, a null cell and every literal
\* that is no number yield zero
C21_ToFloatTotal ==
    op.name = "to_float" =>
        LET x == op.arg[1]
            s == Strip(AsStr(x))
        IN  /\ ret # ValueError
            /\ DOMAIN ret = {"num", "scale"}
            /\ ( \/ s = <<>>
                 \/ Lower(s) \in {<<"n", "a", "n">>, <<"n", "o", "n", "e">>}
                 \/ x \in {NaN, NA}
                 \/ Unparseable(s) ) => ret = Decimal(0, 0)

\* a literal with a second dot after the comma is replaced: float raises twice
\* and the call returns zero
C21_Witness ==
    /\ op.name = "to_float"
    /\ op.arg[1] = <<"1", ",", "0", ".", "1">>
    /\ ParseFloat(Separators(op.arg[1])) = ValueError
    /\ ret = Decimal(0, 0)

-----------------------------------------------------------------------------
(* resolve_columns: the columns of different components *)

\* C28 as claimed: the columns that resolve_columns gives to two different
\* components are never one and the same header
C28_DistinctColumns ==
    op.name = "resolve_columns" =>
        \A c, d \in 1..Len(COMPONENTS) :
            ( /\ c # d
              /\ ret.comp_cols[COMPONENTS[c]] # NoCol )
            => ret.comp_cols[COMPONENTS[c]] # ret.comp_cols[COMPONENTS[d]]

\* a table with an EDIS column and none for DIS: both components are given
\* the EDIS column
C28_SharedColumn ==
    /\ op.name = "resolve_columns"
    /\ heap[src_df].cols = <<H_plant, H_cc, H_EDIS>>
    /\ ret.comp_cols["EDIS"] = H_EDIS
    /\ ret.comp_cols["DIS"] = H_EDIS

-----------------------------------------------------------------------------
(* The specification of normalize on drawn strings *)

\* characters of a string drawn as an input of normalize
MaxTextLen == 3

\* the characters strings are drawn from: letters of both cases, a digit, a
\* space, punctuation, a letter of _TURKISH_CHAR_MAP, a letter that NFKD
\* decomposes, one it leaves whole, and the no-break space
TextChars == {"A", "b", "1", " ", "-", "U0130", "U00E9", "U00DF", "U00A0"}

\* the inputs: every string of the characters up to the length, and None
Texts == UNION {[1..n -> TextChars] : n \in 0..MaxTextLen} \cup {NoCol}

InitNormalize ==
    /\ heap = <<>>
    /\ src_df = None
    /\ staged_df = None
    /\ processed_df = None
    /\ loaded_files_top = <<>>
    /\ loaded_files_bottom = <<>>
    /\ manual_values = NoManual
    /\ model_top = None
    /\ model_bottom = None
    /\ history = <<>>
    /\ disk = EmptyDisk
    /\ \E x \in Texts : op = [name |-> "init", arg |-> <<x>>]
    /\ ret = <<>>
    /\ steps = 0

\* normalize(x); ret is the key
NormalizeCall ==
    /\ op.name = "init"
    /\ \E key \in {normalize(op.arg[1])} :
          Leave([EngineNow EXCEPT !.ret = key], model_top, model_bottom, history, disk,
                [name |-> "normalize", arg |-> op.arg])
    /\ UNCHANGED steps

\* normalize(key) for the key that the call before returned
NormalizeAgainCall ==
    /\ op.name = "normalize"
    /\ \E key \in {normalize(ret)} :
          Leave([EngineNow EXCEPT !.ret = key], model_top, model_bottom, history, disk,
                [name |-> "normalize_again", arg |-> <<op.arg[1], ret>>])
    /\ UNCHANGED steps

NextNormalize == NormalizeCall \/ NormalizeAgainCall

SpecNormalize == InitNormalize /\ [][NextNormalize]_vars

\* C25: normalize applied to a key that normalize returned gives the key
\* back, and normalize of None is the empty key
C25_NormalizeIdempotent ==
    /\ op.name = "normalize_again" => ret = op.arg[2]
    /\ (op.name = "normalize" /\ op.arg[1] = NoCol) => ret = <<>>

\* a string with a space before punctuation at its end: the key has lost
\* both, and the second call returns it as it is
C25_Witness ==
    /\ op.name = "normalize_again"
    /\ op.arg[1] = <<"A", " ", "-">>
    /\ op.arg[2] = <<"a">>
    /\ ret = <<"a">>

-----------------------------------------------------------------------------
(* The import and the rest of the engine's state *)

\* C26: an import in the window leaves the staging buffer with the rows it
\* had, and the two path lists, the manual values and the processed table as
\* they were
C26_ImportChangesOnlySystem ==
    [][ op'.name = "on_import_into_system" =>
            /\ StateOf'.staged = StateOf.staged
            /\ StateOf'.files_top = StateOf.files_top
            /\ StateOf'.files_bottom = StateOf.files_bottom
            /\ StateOf'.manual = StateOf.manual
            /\ StateOf'.processed = StateOf.processed ]_vars

\* an import has appended staged rows to a system table: the rows are still
\* staged and their path is still in the bottom list only
C26_Witness ==
    /\ op.name = "on_import_into_system"
    /\ ret # Raised /\ ret[2] >= 1
    /\ staged_df # None /\ src_df # None
    /\ Len(heap[src_df].rows) > Len(heap[staged_df].rows)
    /\ loaded_files_bottom # <<>>
    /\ loaded_files_top # <<>>
    /\ \A i \in 1..Len(loaded_files_bottom) :
          \A j \in 1..Len(loaded_files_top) : loaded_files_bottom[i] # loaded_files_top[j]

-----------------------------------------------------------------------------
(* The processed table and the top buffer *)

\* C27 as claimed: whenever the engine holds a processed table, it is the
\* mapping (suggest_mapping, then apply_mapping) of the top buffer as it is
C27_ProcessedCoherent ==
    processed_df # None =>
        /\ src_df # None
        /\ heap[processed_df] =
              apply_mapping(heap[src_df], suggest_mapping(heap[src_df].cols))

\* after a further file was appended to the top buffer, the processed table
\* still has the rows it was computed from
C27_StaleProcessed ==
    /\ op.name = "on_open_top"
    /\ processed_df # None /\ src_df # None
    /\ Len(heap[processed_df].rows) < Len(heap[src_df].rows)

-----------------------------------------------------------------------------
(* The specification of eval_formulas_on_rows on drawn tables and formulas *)

\* rows of a component table drawn as an input of eval_formulas_on_rows
MaxFormulaRows == 2

\* formulas of a formula set drawn as an input
MaxFormulas == 2

\* the default formula
F_process ==
    [name |-> <<"P", "R", "O", "C", "E", "S", "S", "_", "M", "A", "L", "I", "Y", "E", "T", "I">>,
     expr |-> <<"A", "M", "O", "R", " ", "+", " ", "D", "I", "S", " ", "+", " ", "E", "D", "I", "S", " ", "+", " ", "E", "N", "E", "R", " ", "+", " ", "G", "U", "G">>]

\* a division, by zero in the rows without DIS
F_ratio ==
    [name |-> <<"R", "A", "T", "I", "O">>,
     expr |-> <<"A", "M", "O", "R", " ", "/", " ", "D", "I", "S">>]

\* a character that line 177 refuses
F_unsafe ==
    [name |-> <<"U", "N", "S", "A", "F", "E">>,
     expr |-> <<"A", "M", "O", "R", ";", " ", "i", "m", "p", "o", "r", "t", " ", "o", "s">>]

\* an expression eval cannot parse
F_broken ==
    [name |-> <<"B", "R", "O", "K", "E", "N">>,
     expr |-> <<"A", "M", "O", "R", " ", "+">>]

\* a name that is no component
F_unknown ==
    [name |-> <<"U", "N", "K", "N", "O", "W", "N">>,
     expr |-> <<"A", "M", "O", "R", " ", "+", " ", "F", "O", "O">>]

\* AMOR in fullwidth letters
F_wide ==
    [name |-> <<"W", "I", "D", "E">>,
     expr |-> <<"UFF21", "UFF2D", "UFF2F", "UFF32">>]

\* a formula named as a component
F_amor ==
    [name |-> <<"A", "M", "O", "R">>,
     expr |-> <<"A", "M", "O", "R", " ", "*", " ", "2">>]

\* a division of numbers by zero
F_zero ==
    [name |-> <<"Z", "E", "R", "O">>,
     expr |-> <<"1", " ", "/", " ", "0">>]

\* operators of both ranks
F_net ==
    [name |-> <<"N", "E", "T">>,
     expr |-> <<"A", "M", "O", "R", " ", "-", " ", "D", "I", "S", " ", "*", " ", "2">>]

FormulaPool == {F_process, F_ratio, F_unsafe, F_broken, F_unknown, F_wide, F_amor, F_zero, F_net}

\* the formula sets: the items of a dict, so no name twice
FormulaSets ==
    UNION { {fs \in [1..n -> FormulaPool] :
               \A i, j \in 1..n : fs[i].name = fs[j].name => i = j} : n \in 1..MaxFormulas }

\* the rows of a component table: AMOR and DIS vary, DIS is zero in some
ComponentRows ==
    { <<Float(a, 1), Float(d, 1), FZero, Float(1, 1), FZero>> : a \in {100, 3}, d \in {0, 50} }

\* a component table as extract_components gives it
ComponentTable(cells) ==
    [cols |-> [c \in 1..Len(COMPONENTS) |-> CompHeader(COMPONENTS[c])],
     rows |-> cells]

InitFormula ==
    /\ src_df = 1
    /\ \E n \in 1..MaxFormulaRows :
       \E cells \in [1..n -> ComponentRows] : heap = (1 :> ComponentTable(cells))
    /\ staged_df = None
    /\ processed_df = None
    /\ loaded_files_top = <<>>
    /\ loaded_files_bottom = <<>>
    /\ manual_values = NoManual
    /\ model_top = None
    /\ model_bottom = None
    /\ history = <<>>
    /\ disk = EmptyDisk
    /\ \E fs \in FormulaSets : op = [name |-> "init", arg |-> <<fs>>]
    /\ ret = <<>>
    /\ steps = 0

\* eval_formulas_on_rows(components_df, formulas); ret is the table
EvalFormulasCall ==
    /\ op.name = "init"
    /\ \E out \in {eval_formulas_on_rows(heap[src_df], op.arg[1])} :
          Leave([EngineNow EXCEPT !.ret = out], model_top, model_bottom, history, disk,
                [name |-> "eval_formulas_on_rows", arg |-> op.arg])
    /\ UNCHANGED steps

NextFormula == EvalFormulasCall

SpecFormula == InitFormula /\ [][NextFormula]_vars

\* the characters the documentation allows in an expression
InClass(c) == c \in Uppers \cup Lowers \cup Digits \cup {"_", " ", "\t", "+", "-", "*", "/"}

\* every character of the expression is one the documentation allows
WithinClass(expr) == \A i \in 1..Len(expr) : InClass(expr[i])

\* no formula of the set is named as a component
NoComponentName(fs) ==
    \A k \in 1..Len(fs) : \A c \in 1..Len(COMPONENTS) : fs[k].name # CompHeader(COMPONENTS[c])

\* C22 as claimed: the result is a table; it has no column for a formula
\* whose expression has a character outside the class, and it has the
\* column of every formula within the class that evaluates
C22_FormulaSafety ==
    (op.name = "eval_formulas_on_rows" /\ NoComponentName(op.arg[1])) =>
        LET fs == op.arg[1]
        IN  /\ ret # EvalError
            /\ \A k \in 1..Len(fs) :
                  IF ~WithinClass(fs[k].expr) THEN ~HasCol(ret, fs[k].name)
                  ELSE EvalExpr(fs[k].expr, LocalEnv(heap[src_df])) # EvalError
                       => HasCol(ret, fs[k].name)

\* the formula written in fullwidth letters has its column, with the values
\* of AMOR
C22_FullwidthColumn ==
    /\ op.name = "eval_formulas_on_rows"
    /\ op.arg[1] = <<F_unsafe, F_wide>>
    /\ ~HasCol(ret, F_unsafe.name)
    /\ HasCol(ret, F_wide.name)
    /\ ColumnOf(ret, F_wide.name) = ColumnOf(heap[src_df], CompHeader("AMOR"))

\* the components of row i as numbers, the environment of an evaluation of
\* that row alone
RowEnv(t, i) == [comp \in CompSet |-> ScalarVal(Cell(t, i, CompHeader(comp)))]

\* C23 as claimed: a formula whose evaluation fails for some row, be it by a
\* division by zero, a malformed expression or an unknown name, has no
\* column in the result
C23_FailureSkipsFormula ==
    (op.name = "eval_formulas_on_rows" /\ NoComponentName(op.arg[1])) =>
        LET fs == op.arg[1]
            df == heap[src_df]
        IN  /\ ret # EvalError
            /\ \A k \in 1..Len(fs) :
                  ( /\ ExprAllowed(fs[k].expr)
                    /\ \E i \in 1..Len(df.rows) :
                          EvalExpr(fs[k].expr, RowEnv(df, i)) = EvalError )
                  => ~HasCol(ret, fs[k].name)

\* the division has its column: inf in the row whose DIS is zero, the
\* quotient in the other
C23_InfColumn ==
    /\ op.name = "eval_formulas_on_rows"
    /\ op.arg[1] = <<F_ratio>>
    /\ Len(heap[src_df].rows) = 2
    /\ Cell(heap[src_df], 1, CompHeader("DIS")) = FZero
    /\ Cell(heap[src_df], 2, CompHeader("DIS")) = Float(50, 1)
    /\ Cell(heap[src_df], 2, CompHeader("AMOR")) = Float(100, 1)
    /\ HasCol(ret, F_ratio.name)
    /\ Cell(ret, 1, F_ratio.name) = Float(1, 0)
    /\ Cell(ret, 2, F_ratio.name) = Float(2, 1)

\* C29 as claimed: the component columns of the result are those of the
\* input, and the column of every formula is its value on the input's
\* components
C29_ComponentsUnchanged ==
    op.name = "eval_formulas_on_rows" =>
        LET fs == op.arg[1]
            df == heap[src_df]
        IN  /\ \A c \in 1..Len(COMPONENTS) :
                  ColumnOf(ret, CompHeader(COMPONENTS[c])) = ColumnOf(df, CompHeader(COMPONENTS[c]))
            /\ \A k \in 1..Len(fs) :
                  ( /\ HasCol(ret, fs[k].name)
                    /\ \A c \in 1..Len(COMPONENTS) : fs[k].name # CompHeader(COMPONENTS[c]) )
                  => LET v == EvalExpr(fs[k].expr, LocalEnv(df))
                     IN  /\ v # EvalError
                         /\ ColumnOf(ret, fs[k].name) =
                               (IF v.series THEN v.v ELSE [i \in 1..Len(df.rows) |-> v.v])

\* the formula named AMOR has doubled the AMOR column, and the default
\* formula after it has summed with the doubled values
C29_ComponentOverwritten ==
    /\ op.name = "eval_formulas_on_rows"
    /\ op.arg[1] = <<F_amor, F_process>>
    /\ Len(heap[src_df].rows) = 1
    /\ Cell(heap[src_df], 1, CompHeader("AMOR")) = Float(100, 1)
    /\ Cell(heap[src_df], 1, CompHeader("DIS")) = FZero
    /\ Cell(ret, 1, CompHeader("AMOR")) = Float(200, 1)
    /\ Cell(ret, 1, F_process.name) = Float(201, 1)

-----------------------------------------------------------------------------
(* The specification of compute_by_plant_costcenter on drawn tables and codes *)

\* rows of a table drawn as an input of compute_by_plant_costcenter
MaxComputeRows == 2

\* the key cells of a row: plant and cost centre
ComputeKeys == { <<<<"P", "1">>, <<"C", "1">>>>, <<<<"P", "2">>, <<"C", "2">>>>, <<<<"P", "1">>, <<"C", "2">>>> }

\* the cells of the component column: numbers with and without a decimal comma
ComputeCells == { <<"1", "0", "0">>, <<"5", "0">>, <<"1", ",", "5">> }

\* the headers: the keys and AMOR, the same with the provenance column, and
\* the keys with an EDIS column, which the candidates of DIS match as well
ComputeCols == { <<H_plant, H_cc, H_AMOR>>, <<H_plant, H_cc, H_AMOR, H_kaynak_dosya>>,
                 <<H_plant, H_cc, H_EDIS>> }

\* the codes asked for: none, codes of some rows, a code of no row
ComputeCodes == { << <<>>, <<>> >>, <<<<"P", "1">>, <<"C", "1">>>>, <<<<"P", "1">>, <<>> >>, <<<<"P", "9">>, <<"C", "1">>>> }

ComputeTable(cols, cells) ==
    [cols |-> cols,
     rows |-> [i \in 1..Len(cells) |->
                 [j \in 1..Len(cols) |->
                     IF j <= 2 THEN cells[i][1][j]
                     ELSE IF j = 3 THEN cells[i][2]
                     ELSE PathName(P_top)]]]

InitCompute ==
    /\ src_df = 1
    /\ \E cols \in ComputeCols, n \in 0..MaxComputeRows :
       \E cells \in [1..n -> ComputeKeys \X ComputeCells] :
          heap = (1 :> ComputeTable(cols, cells))
    /\ staged_df = None
    /\ processed_df = None
    /\ loaded_files_top = <<>>
    /\ loaded_files_bottom = <<>>
    /\ manual_values = NoManual
    /\ model_top = None
    /\ model_bottom = None
    /\ history = <<>>
    /\ disk = EmptyDisk
    /\ op = [name |-> "init", arg |-> <<>>]
    /\ ret = <<>>
    /\ steps = 0

\* compute_by_plant_costcenter(src_df, isyeri_kodu, masraf_yeri_kodu); ret is
\* the pair of the row table and the summary
ComputeCall ==
    /\ op.name = "init"
    /\ \E codes \in ComputeCodes :
       \E out \in {compute_by_plant_costcenter(heap[src_df], codes[1], codes[2])} :
          Leave([EngineNow EXCEPT !.ret = out], model_top, model_bottom, history, disk,
                [name |-> "compute_by_plant_costcenter", arg |-> codes])
    /\ UNCHANGED steps

NextCompute == ComputeCall

SpecCompute == InitCompute /\ [][NextCompute]_vars

\* the rows of df that the codes of the call select
Selected(df) ==
    {i \in 1..Len(df.rows) :
        /\ Satisfies(df, resolve_columns(df).plant_col, op.arg[1], i)
        /\ Satisfies(df, resolve_columns(df).cctr_col, op.arg[2], i)}

\* the value of component comp in row i of df: the coerced cell of its
\* column, 0.0 when the component has no column
Coerced(df, i, comp) ==
    IF resolve_columns(df).comp_cols[comp] = NoCol THEN FZero
    ELSE FloatOf(to_float(Cell(df, i, resolve_columns(df).comp_cols[comp])))

\* AMOR + DIS + EDIS + ENER + GUG of row i of df
ComponentSum(df, i) ==
    FAdd(FAdd(FAdd(FAdd(Coerced(df, i, "AMOR"), Coerced(df, i, "DIS")),
                   Coerced(df, i, "EDIS")), Coerced(df, i, "ENER")), Coerced(df, i, "GUG"))

\* the value that the summary maps key to, NoCol when it has no such key
SummaryOf(summary, key) ==
    IF \E k \in 1..Len(summary) : summary[k][1] = key
    THEN summary[CHOOSE k \in 1..Len(summary) : summary[k][1] = key][2]
    ELSE NoCol

\* the keys of the summary
SummaryKeys(summary) == {summary[k][1] : k \in 1..Len(summary)}

\* the statement of C24 with the formula column under the name formula and
\* the summary holding the keys keys
ComputeContract(formula, keys) ==
    op.name = "compute_by_plant_costcenter" =>
        LET df == heap[src_df]
            keep == Selected(df)
            row(k) == CHOOSE i \in keep : Cardinality({l \in keep : l <= i}) = k
        IN  IF keep = {}
            THEN ret = [rows |-> EmptyTable, summary |-> <<>>]
            ELSE /\ Len(ret.rows.rows) = Cardinality(keep)
                 /\ HasCol(ret.rows, formula)
                 /\ \A c \in 1..Len(COMPONENTS) : HasCol(ret.rows, CompHeader(COMPONENTS[c]))
                 /\ \A k \in 1..Cardinality(keep) :
                       /\ \A c \in 1..Len(COMPONENTS) :
                             Cell(ret.rows, k, CompHeader(COMPONENTS[c]))
                                = Coerced(df, row(k), COMPONENTS[c])
                       /\ Cell(ret.rows, k, formula) = ComponentSum(df, row(k))
                 /\ SummaryKeys(ret.summary) = keys
                 /\ \A key \in keys :
                       SummaryOf(ret.summary, key) = SumSkipNa(ColumnOf(ret.rows, key))

\* the name of the default formula in the documentation
PROCESS_COST == <<"P", "R", "O", "C", "E", "S", "S", "_", "C", "O", "S", "T">>

====
